---- MODULE Spec2Model ----
(***************************************************************************)
(* Envelope-encryption key hierarchy and secret versioning of KeyVault.    *)
(*                                                                         *)
(*   src/src/services/encryption.service.ts   EncryptionService            *)
(*   src/src/services/key.service.ts          SecretsService (l. 390 ff.)  *)
(*                                                                         *)
(* Cryptography is symbolic.  AES-256-GCM is an ideal authenticated        *)
(* cipher: a ciphertext is the term (key, iv, plaintext), a tag is the     *)
(* term (key, iv, ciphertext), and decipher.final() accepts exactly the    *)
(* tag that was computed for the key, iv and ciphertext it is given.       *)
(* randomBytes() draws a value never drawn before.  Encodings (utf8,       *)
(* base64, the "iv:authTag:ciphertext" string) are modelled by what Node   *)
(* does with them.                                                         *)
(***************************************************************************)
EXTENDS Integers, Sequences, FiniteSets, TLC

VARIABLES
    masterKey,  \* EncryptionService.masterKey, fixed by the constructor
    orgs,       \* organization rows: encryptedKek, kekVersion
    secrets,    \* committed Secret rows
    versions,   \* committed SecretVersion rows
    tx,         \* rows written by each request's open transaction
    req,        \* each request: operation, arguments, locals, position, outcome
    opCount,    \* operations started so far
    rnd,        \* last value drawn by randomBytes()
    nextId,     \* last row id handed out
    clock,      \* Date.now()
    kekLog,     \* history: every (kekVersion, KEK) pair an organization was given
    apiKeys,    \* ApiKey rows
    users,      \* User rows
    redis       \* the Redis keys refresh_token:<userId> and blacklist:<token>

vars == <<masterKey, orgs, secrets, versions, tx, req, opCount, rnd, nextId, clock, kekLog,
          apiKeys, users, redis>>

(***************************************************************************)
(* Encodings                                                               *)
(***************************************************************************)

\* A JS string is a sequence of UTF-16 code units.  "hs" / "ls" stand for a
\* high / low surrogate code unit, "fffd" for U+FFFD, every other name for
\* a BMP character.  A UTF-8 byte string is written as its sequence of
\* scalar values; "astral" is the scalar a surrogate pair hs ls denotes.
RECURSIVE Utf8Encode(_)
Utf8Encode(s) ==
    IF s = <<>> THEN <<>>
    ELSE IF Len(s) >= 2 /\ s[1] = "hs" /\ s[2] = "ls"
         THEN <<"astral">> \o Utf8Encode(SubSeq(s, 3, Len(s)))
    ELSE IF s[1] \in {"hs", "ls"}
         THEN <<"fffd">> \o Utf8Encode(Tail(s))
    ELSE <<s[1]>> \o Utf8Encode(Tail(s))

RECURSIVE Utf8Decode(_)
Utf8Decode(b) ==
    IF b = <<>> THEN <<>>
    ELSE IF b[1] = "astral" THEN <<"hs", "ls">> \o Utf8Decode(Tail(b))
    ELSE <<b[1]>> \o Utf8Decode(Tail(b))

\* buf.toString('base64') gives the canonical spelling of the bytes.
\* Buffer.from(s, 'base64') is lenient: it drops the unused trailing bits,
\* padding and characters outside the alphabet, so several strings decode
\* to the same bytes.  alt = TRUE marks such a non-canonical spelling.
B64Encode(bytes) == [b |-> bytes, alt |-> FALSE]

B64Decode(str) == str.b

\* `${iv}:${authTag}:${encrypted}` and its inverse split(':'); the base64
\* alphabet has no ':', so the three fields come back as they went in.
JoinColon(ivB64, authTagB64, ciphertextB64) == <<ivB64, authTagB64, ciphertextB64>>

SplitColon(str) == [ivB64 |-> str[1], authTagB64 |-> str[2], ciphertextB64 |-> str[3]]

(***************************************************************************)
(* AES-256-GCM                                                             *)
(***************************************************************************)

ALGORITHM == "aes-256-gcm"

\* What the keystream xor yields when key or iv is not the one used to
\* encrypt: bytes unrelated to the plaintext (a key nobody holds, a text
\* nobody wrote).
GarbledKey == <<0>>

GarbledText == <<"fffd">>

\* cipher.update(pt) ++ cipher.final(): CTR keystream xor pt.  The empty
\* plaintext has the empty ciphertext whatever key and iv are.
GcmCiphertext(key, iv, pt) ==
    IF pt = <<>> THEN [k |-> 0, iv |-> 0, p |-> pt]
    ELSE [k |-> key, iv |-> iv, p |-> pt]

\* cipher.getAuthTag()
GcmTag(key, iv, ct) == [k |-> key, iv |-> iv, c |-> ct]

\* decipher.update(ct): the keystream is removed; with another key or iv
\* the bytes that come out are unrelated to the plaintext.
GcmKeystreamXor(key, iv, ct, garbled) ==
    IF ct.p = <<>> THEN <<>>
    ELSE IF ct.k = key /\ ct.iv = iv THEN ct.p
    ELSE garbled

\* createDecipheriv + setAuthTag + update + final: final() throws unless the
\* tag authenticates (key, iv, ct).
VerifyAndDecipherUnchecked(key, iv, ct, tag, garbled) ==
    [ok |-> TRUE, out |-> GcmKeystreamXor(key, iv, ct, garbled)]

VerifyAndDecipher(key, iv, ct, tag, garbled) ==
    IF tag = GcmTag(key, iv, ct)
    THEN [ok |-> TRUE, out |-> GcmKeystreamXor(key, iv, ct, garbled)]
    ELSE [ok |-> FALSE, out |-> garbled]

(***************************************************************************)
(* EncryptionService                                                       *)
(***************************************************************************)

\* encryptDEK(dek, kek): iv is the randomBytes(IV_LENGTH) it draws.  A key
\* buffer is the one-element byte string <<key>>.
encryptDEK(dek, kek, iv) ==
    LET encrypted == GcmCiphertext(kek, iv, <<dek>>)
        authTag   == GcmTag(kek, iv, encrypted)
    IN  JoinColon(B64Encode(iv), B64Encode(authTag), B64Encode(encrypted))

\* decryptDEK(encryptedDek, kek): [ok, dek]; ok = FALSE is the throw.
decryptDEK(encryptedDek, kek) ==
    LET parts == SplitColon(encryptedDek)
        r == VerifyAndDecipher(kek, B64Decode(parts.ivB64),
                               B64Decode(parts.ciphertextB64),
                               B64Decode(parts.authTagB64), GarbledKey)
    IN  [ok |-> r.ok, dek |-> r.out[1]]

\* An encryptSecret that encrypts the value under the IV it drew for the
\* DEK wrap and returns the other one.
encryptSecretMixedIv(plaintext, orgKek, keyVersion, dek, ivDek, iv) ==
    LET encryptedDek == encryptDEK(dek, orgKek, ivDek)
        encrypted    == GcmCiphertext(dek, ivDek, Utf8Encode(plaintext))
        authTag      == GcmTag(dek, ivDek, encrypted)
    IN  [ciphertext   |-> B64Encode(encrypted),
         iv           |-> B64Encode(iv),
         authTag      |-> B64Encode(authTag),
         encryptedDek |-> encryptedDek,
         algorithm    |-> ALGORITHM,
         keyVersion   |-> keyVersion]

\* An encryptSecret that encrypts every value under one built-in DEK.
encryptSecretStaticDek(plaintext, orgKek, keyVersion, dek, ivDek, iv) ==
    LET encryptedDek == encryptDEK(9, orgKek, ivDek)
        encrypted    == GcmCiphertext(9, iv, Utf8Encode(plaintext))
        authTag      == GcmTag(9, iv, encrypted)
    IN  [ciphertext   |-> B64Encode(encrypted),
         iv           |-> B64Encode(iv),
         authTag      |-> B64Encode(authTag),
         encryptedDek |-> encryptedDek,
         algorithm    |-> ALGORITHM,
         keyVersion   |-> keyVersion]

\* encryptSecret(plaintext, orgKek, keyVersion): dek, ivDek and iv are its
\* three randomBytes() draws.  The DEK is zero-filled before the return.
encryptSecret(plaintext, orgKek, keyVersion, dek, ivDek, iv) ==
    LET encryptedDek == encryptDEK(dek, orgKek, ivDek)
        encrypted    == GcmCiphertext(dek, iv, Utf8Encode(plaintext))
        authTag      == GcmTag(dek, iv, encrypted)
    IN  [ciphertext   |-> B64Encode(encrypted),
         iv           |-> B64Encode(iv),
         authTag      |-> B64Encode(authTag),
         encryptedDek |-> encryptedDek,
         algorithm    |-> ALGORITHM,
         keyVersion   |-> keyVersion]

\* decryptSecret(encryptedData, orgKek).  ok = FALSE is a throw, which
\* carries no plaintext.  unwiped: the raw key buffers the call obtained and
\* has not zero-filled when it returns or throws (dek.fill(0) is the line
\* after decipher.final(), so a throw of final() skips it).
decryptSecret(encryptedData, orgKek) ==
    LET d == decryptDEK(encryptedData.encryptedDek, orgKek)
        r == VerifyAndDecipher(d.dek, B64Decode(encryptedData.iv),
                               B64Decode(encryptedData.ciphertext),
                               B64Decode(encryptedData.authTag), GarbledText)
    IN  IF ~d.ok THEN [ok |-> FALSE, unwiped |-> {}]
        ELSE IF ~r.ok THEN [ok |-> FALSE, unwiped |-> {"dek"}]
        ELSE [ok |-> TRUE, plaintext |-> Utf8Decode(r.out),
              keyVersion |-> encryptedData.keyVersion, unwiped |-> {}]

\* The wrap generateOrgKEK computes, under master key mk.
WrapKEK(mk, kek, iv) ==
    LET encrypted == GcmCiphertext(mk, iv, <<kek>>)
        authTag   == GcmTag(mk, iv, encrypted)
    IN  JoinColon(B64Encode(iv), B64Encode(authTag), B64Encode(encrypted))

\* generateOrgKEK(): kek and iv are its two randomBytes() draws.
generateOrgKEK(kek, iv) ==
    [kek |-> kek, encryptedKek |-> WrapKEK(masterKey, kek, iv)]

\* decryptOrgKEK(encryptedKek): [ok, kek]; ok = FALSE is the throw.
decryptOrgKEK(encryptedKek) ==
    LET parts == SplitColon(encryptedKek)
        r == VerifyAndDecipher(masterKey, B64Decode(parts.ivB64),
                               B64Decode(parts.ciphertextB64),
                               B64Decode(parts.authTagB64), GarbledKey)
    IN  [ok |-> r.ok, kek |-> r.out[1]]

\* A re-wrap that encrypts under the KEK it has just decrypted with.
RewrapEntryUnderOldKek(secret, oldKek, newKek, iv) ==
    LET d == decryptDEK(secret.encryptedDek, oldKek)
    IN  [ok |-> d.ok, id |-> secret.id,
         encryptedDek |-> encryptDEK(d.dek, oldKek, iv)]

\* A re-wrap that wraps a key of its own making instead of the entry's DEK.
RewrapEntryFreshDek(secret, oldKek, newKek, iv) ==
    LET d == decryptDEK(secret.encryptedDek, oldKek)
    IN  [ok |-> d.ok, id |-> secret.id,
         encryptedDek |-> encryptDEK(iv, newKek, iv)]

\* The callback of secrets.map in rotateOrgKEK, for the i-th entry.
RewrapEntry(secret, oldKek, newKek, iv) ==
    LET d == decryptDEK(secret.encryptedDek, oldKek)
    IN  [ok |-> d.ok, id |-> secret.id,
         encryptedDek |-> encryptDEK(d.dek, newKek, iv)]

StripOk(e) == [id |-> e.id, encryptedDek |-> e.encryptedDek]

\* A rotation that drops the entries it cannot unwrap instead of failing.
rotateOrgKEKSkipFailed(oldEncryptedKek, secretList, newKek, kekIv, firstIv, now) ==
    LET old == decryptOrgKEK(oldEncryptedKek)
        gen == generateOrgKEK(newKek, kekIv)
        entries == [i \in 1..Len(secretList) |->
                       RewrapEntry(secretList[i], old.kek, newKek, firstIv + i)]
        Good(e) == e.ok
        kept == SelectSeq(entries, Good)
    IN  IF ~old.ok THEN [ok |-> FALSE, unwiped |-> {}]
        ELSE [ok |-> TRUE,
              newEncryptedKek |-> gen.encryptedKek,
              updatedSecrets |-> [i \in 1..Len(kept) |-> StripOk(kept[i])],
              newVersion |-> now,
              unwiped |-> {}]

\* rotateOrgKEK(oldEncryptedKek, secrets).  newKek, kekIv: the draws of
\* generateOrgKEK; firstIv + i: the draw of the i-th encryptDEK; now:
\* Date.now().  Promise.all rejects as soon as one callback throws, and the
\* two fill(0) calls after it are skipped.
rotateOrgKEK(oldEncryptedKek, secretList, newKek, kekIv, firstIv, now) ==
    LET old == decryptOrgKEK(oldEncryptedKek)
        gen == generateOrgKEK(newKek, kekIv)
        entries == [i \in 1..Len(secretList) |->
                       RewrapEntry(secretList[i], old.kek, newKek, firstIv + i)]
    IN  IF ~old.ok THEN [ok |-> FALSE, unwiped |-> {}]
        ELSE IF \E i \in 1..Len(secretList) : ~entries[i].ok
             THEN [ok |-> FALSE, unwiped |-> {"oldKek", "newKek"}]
        ELSE [ok |-> TRUE,
              newEncryptedKek |-> gen.encryptedKek,
              updatedSecrets |-> [i \in 1..Len(secretList) |-> StripOk(entries[i])],
              newVersion |-> now,
              unwiped |-> {}]

\* A blind index that leaves the salt out.
createBlindIndexUnsalted(value, salt) == B64Encode([scrypt |-> value, salt |-> ""])

\* createBlindIndex(value, salt): scrypt as an ideal one-way function.
createBlindIndex(value, salt) == B64Encode([scrypt |-> value, salt |-> salt])

(***************************************************************************)
(* Bounds and domains                                                      *)
(***************************************************************************)

NumReqs == 2    \* requests in flight at once
MaxOps == 4     \* operations started in one behaviour

Reqs == 1..NumReqs

Orgs == {"org1"}
EnvironmentIds == {"env1"}
SecretKeys == {"DB_PASSWORD"}
Values == {<<"a">>, <<"b">>}
Descriptions == {"d1"}

(***************************************************************************)
(* Persistence: what the service relies on                                 *)
(*                                                                         *)
(* findUnique({ environmentId_path_key }) and findUnique({ secretId_version *)
(* }) name two unique indexes: Secret(environmentId, path, key) and        *)
(* SecretVersion(secretId, version).  prisma.$transaction runs its         *)
(* statements in one database transaction: its rows are in tx[r] until the *)
(* commit, no other request reads them, an insert of a key that another    *)
(* open transaction has inserted waits for that transaction, and a row that *)
(* an open transaction's insert references is not deleted before it ends.  *)
(***************************************************************************)

NoTx == [secrets |-> {}, versions |-> {}]

Idle == [op |-> "idle", pc |-> "idle", arg |-> <<>>, loc |-> <<>>,
         result |-> "none", ret |-> <<>>, unwiped |-> {}, audited |-> <<>>]

\* The request returns (result = "ok") or throws (any other result).
Finish(r, result, ret, unwiped, audited) ==
    [req EXCEPT ![r] = [@ EXCEPT !.pc = "done", !.result = result, !.ret = ret,
                                 !.unwiped = unwiped, !.audited = audited]]

Goto(r, pc, loc) == [req EXCEPT ![r] = [@ EXCEPT !.pc = pc, !.loc = loc]]

\* A request slot takes the next call once the previous one has returned.
Begin(r, op, pc, arg) ==
    /\ req[r].pc \in {"idle", "done"}
    /\ opCount < MaxOps
    /\ opCount' = opCount + 1
    /\ req' = [req EXCEPT ![r] = [Idle EXCEPT !.op = op, !.pc = pc, !.arg = arg]]

\* An AuditService.log that lets a failed AuditLog.create escape.
AuditServiceLogRethrow(action, createOk) ==
    [threw |-> ~createOk, entry |-> [action |-> action, stored |-> createOk]]

\* AuditService.log(params): AuditLog.create runs inside try/catch; when the
\* write fails (createOk = FALSE) the error goes to the console and null is
\* returned.  entry: the call and whether its row was stored.
AuditServiceLog(action, createOk) ==
    [threw |-> FALSE, entry |-> [action |-> action, stored |-> createOk]]

\* `await auditService.log({ action, ... })` followed by the return.
FinishAudited(r, ret, unwiped, action, createOk) ==
    LET a == AuditServiceLog(action, createOk)
    IN  IF a.threw
        THEN Finish(r, "AuditError", <<>>, unwiped, <<a.entry>>)
        ELSE Finish(r, "ok", ret, unwiped, <<a.entry>>)

ByTuple(environmentId, path, key) ==
    {s \in secrets : s.environmentId = environmentId /\ s.path = path /\ s.key = key}

ById(secretId) == {s \in secrets : s.id = secretId}

VersionsOf(secretId) == {v \in versions : v.secretId = secretId}

\* include: { versions: { where: { version: currentVersion }, take: 1 } }
CurrentVersionRows(s) == {v \in versions : v.secretId = s.id /\ v.version = s.currentVersion}

OtherTx(r) == Reqs \ {r}

\* The bundle decryptSecret is given for a SecretVersion row.
BundleOf(v) ==
    [ciphertext |-> v.encryptedValue, iv |-> v.iv, authTag |-> v.authTag,
     encryptedDek |-> v.encryptedDek, algorithm |-> v.algorithm,
     keyVersion |-> v.kekVersion]

\* data: { version, encryptedValue, encryptedDek, iv, authTag, algorithm,
\*         kekVersion } of secretVersion.create
VersionRow(id, secretId, version, enc) ==
    [id |-> id, secretId |-> secretId, version |-> version,
     encryptedValue |-> enc.ciphertext, encryptedDek |-> enc.encryptedDek,
     iv |-> enc.iv, authTag |-> enc.authTag, algorithm |-> enc.algorithm,
     kekVersion |-> enc.keyVersion]

(***************************************************************************)
(* SecretsService.createSecret                                             *)
(***************************************************************************)

\* createSecret(environmentId, { key, value }, userId, orgId)
StartCreateWith(r, e, k, v, o) ==
    /\ Begin(r, "create", "cr_find",
             [environmentId |-> e, path |-> "/", key |-> k, value |-> v, orgId |-> o])
    /\ UNCHANGED <<masterKey, orgs, secrets, versions, tx, rnd, nextId, clock, kekLog>>

StartCreate(r) ==
    \E e \in EnvironmentIds, k \in SecretKeys, v \in Values, o \in Orgs :
        StartCreateWith(r, e, k, v, o)

\* findUnique + `if (existing && !existing.deletedAt) throw ConflictError`
CreateFind(r) ==
    /\ req[r].pc = "cr_find"
    /\ LET a == req[r].arg
           existing == ByTuple(a.environmentId, a.path, a.key)
       IN  IF \E s \in existing : ~s.deleted
           THEN req' = Finish(r, "ConflictError", <<>>, {}, <<>>)
           ELSE req' = Goto(r, "cr_encrypt", <<>>)
    /\ UNCHANGED <<masterKey, orgs, secrets, versions, tx, opCount, rnd, nextId, clock, kekLog>>

\* organization.findUnique, decryptOrgKEK, encryptSecret, createBlindIndex
CreateEncrypt(r) ==
    /\ req[r].pc = "cr_encrypt"
    /\ LET a == req[r].arg
           org == orgs[a.orgId]
           k == decryptOrgKEK(org.encryptedKek)
       IN  IF ~k.ok
           THEN /\ req' = Finish(r, "CryptoError", <<>>, {}, <<>>)
                /\ rnd' = rnd
           ELSE /\ req' = Goto(r, "cr_tx_create",
                      [kek |-> k.kek,
                       encryptedData |-> encryptSecret(a.value, k.kek, org.kekVersion,
                                                       rnd + 1, rnd + 2, rnd + 3),
                       keyHash |-> createBlindIndex(a.key, a.orgId)])
                /\ rnd' = rnd + 3
    /\ UNCHANGED <<masterKey, orgs, secrets, versions, tx, opCount, nextId, clock, kekLog>>

\* tx.secret.create with the nested versions.create.  A committed row at
\* the tuple makes the insert fail on the unique index; the throw leaves
\* createSecret before kek.fill(0).
CreateTxInsert(r) ==
    /\ req[r].pc = "cr_tx_create"
    /\ LET a == req[r].arg
           l == req[r].loc
       IN  /\ \A q \in OtherTx(r) : \A s \in tx[q].secrets :
                  ~(s.environmentId = a.environmentId /\ s.path = a.path /\ s.key = a.key)
           /\ IF ByTuple(a.environmentId, a.path, a.key) # {}
              THEN /\ req' = Finish(r, "UniqueConstraintError", <<>>, {"kek"}, <<>>)
                   /\ UNCHANGED <<tx, nextId>>
              ELSE /\ tx' = [tx EXCEPT ![r] =
                         [secrets |-> {[id |-> nextId + 1,
                                        environmentId |-> a.environmentId,
                                        path |-> a.path, key |-> a.key,
                                        keyHash |-> l.keyHash,
                                        description |-> "",
                                        currentVersion |-> 1,
                                        currentVersionId |-> 0,
                                        deleted |-> FALSE]},
                          versions |-> {VersionRow(nextId + 2, nextId + 1, 1,
                                                   l.encryptedData)}]]
                   /\ nextId' = nextId + 2
                   /\ req' = Goto(r, "cr_tx_commit", l)
    /\ UNCHANGED <<masterKey, orgs, secrets, versions, opCount, rnd, clock, kekLog>>

\* The data of tx.secret.update in createSecret.
CreatePointerFields(s, v) == [s EXCEPT !.currentVersionId = v.id]

\* tx.secret.update({ currentVersionId }), commit, kek.fill(0),
\* auditService.log, return
CreateTxCommit(r) ==
    /\ req[r].pc = "cr_tx_commit"
    /\ LET s == CHOOSE x \in tx[r].secrets : TRUE
           v == CHOOSE x \in tx[r].versions : TRUE
       IN  /\ secrets' = secrets \cup {CreatePointerFields(s, v)}
           /\ versions' = versions \cup {v}
           /\ \E createOk \in BOOLEAN :
                  req' = FinishAudited(r, [id |-> s.id, version |-> s.currentVersion],
                                       {}, "secret.create", createOk)
    /\ tx' = [tx EXCEPT ![r] = NoTx]
    /\ UNCHANGED <<masterKey, orgs, opCount, rnd, nextId, clock, kekLog>>

(***************************************************************************)
(* SecretsService.updateSecret                                             *)
(***************************************************************************)

StartUpdate(r) ==
    \E e \in EnvironmentIds, k \in SecretKeys, o \in Orgs,
       hasValue \in BOOLEAN, v \in Values, hasDescription \in BOOLEAN, d \in Descriptions :
        /\ hasValue \/ hasDescription
        /\ Begin(r, "update", "up_find",
                 [environmentId |-> e, path |-> "/", key |-> k, orgId |-> o,
                  hasValue |-> hasValue, value |-> v,
                  hasDescription |-> hasDescription, description |-> d])
        /\ UNCHANGED <<masterKey, orgs, secrets, versions, tx, rnd, nextId, clock, kekLog>>

\* findUnique({ environmentId_path_key, deletedAt: null })
UpdateFind(r) ==
    /\ req[r].pc = "up_find"
    /\ LET a == req[r].arg
           found == {s \in ByTuple(a.environmentId, a.path, a.key) : ~s.deleted}
       IN  IF found = {}
           THEN req' = Finish(r, "NotFoundError", <<>>, {}, <<>>)
           ELSE req' = Goto(r, IF a.hasValue THEN "up_encrypt" ELSE "up_meta",
                            [secret |-> CHOOSE s \in found : TRUE])
    /\ UNCHANGED <<masterKey, orgs, secrets, versions, tx, opCount, rnd, nextId, clock, kekLog>>

\* A version counter that leaves a number out.
NextVersionSkip(secret) == secret.currentVersion + 2

\* const newVersion = secret.currentVersion + 1
NextVersion(secret) == secret.currentVersion + 1

\* organization.findUnique, decryptOrgKEK, encryptSecret, newVersion
UpdateEncrypt(r) ==
    /\ req[r].pc = "up_encrypt"
    /\ LET a == req[r].arg
           l == req[r].loc
           org == orgs[a.orgId]
           k == decryptOrgKEK(org.encryptedKek)
       IN  IF ~k.ok
           THEN /\ req' = Finish(r, "CryptoError", <<>>, {}, <<>>)
                /\ rnd' = rnd
           ELSE /\ req' = Goto(r, "up_tx_create",
                      [secret |-> l.secret,
                       kek |-> k.kek,
                       encryptedData |-> encryptSecret(a.value, k.kek, org.kekVersion,
                                                       rnd + 1, rnd + 2, rnd + 3),
                       newVersion |-> NextVersion(l.secret)])
                /\ rnd' = rnd + 3
    /\ UNCHANGED <<masterKey, orgs, secrets, versions, tx, opCount, nextId, clock, kekLog>>

\* The SecretVersion(secretId, version) unique index, as an insert sees it.
VersionKeyTakenNever(secretId, version) == FALSE

VersionKeyTaken(secretId, version) ==
    \E v \in versions : v.secretId = secretId /\ v.version = version

\* An insert that does not wait for the open transactions.
VersionKeyPendingNever(r, secretId, version) == FALSE

\* An insert of the same key by another open transaction makes this one wait.
VersionKeyPending(r, secretId, version) ==
    \E q \in OtherTx(r) : \E v \in tx[q].versions :
        v.secretId = secretId /\ v.version = version

\* tx.secretVersion.create of updateSecret and of rollbackToVersion: row is
\* its data.  unwiped: what the caller holds when the insert throws.
TxInsertVersion(r, row, unwiped, nextPc) ==
    /\ ~VersionKeyPending(r, row.secretId, row.version)
    /\ IF ById(row.secretId) = {}
       THEN /\ req' = Finish(r, "ForeignKeyError", <<>>, unwiped, <<>>)
            /\ UNCHANGED <<tx, nextId>>
       ELSE IF VersionKeyTaken(row.secretId, row.version)
       THEN /\ req' = Finish(r, "UniqueConstraintError", <<>>, unwiped, <<>>)
            /\ UNCHANGED <<tx, nextId>>
       ELSE /\ tx' = [tx EXCEPT ![r] = [secrets |-> {}, versions |-> {row}]]
            /\ nextId' = nextId + 1
            /\ req' = Goto(r, nextPc, req[r].loc)

UpdateTxInsert(r) ==
    /\ req[r].pc = "up_tx_create"
    /\ LET l == req[r].loc
       IN  TxInsertVersion(r, VersionRow(nextId + 1, l.secret.id, l.newVersion,
                                         l.encryptedData),
                           {"kek"}, "up_tx_commit")
    /\ UNCHANGED <<masterKey, orgs, secrets, versions, opCount, rnd, clock, kekLog>>

\* data: { ...updates, currentVersion: newVersion, currentVersionId: version.id }
PointerFieldsVersionOnly(s, newVersion, version) ==
    [s EXCEPT !.currentVersion = newVersion]

PointerFields(s, newVersion, version) ==
    [s EXCEPT !.currentVersion = newVersion, !.currentVersionId = version.id]

\* Updates that count every change of the row as a new version.
ApplyUpdatesBumpVersion(s, a) ==
    IF a.hasDescription
    THEN [s EXCEPT !.description = a.description, !.currentVersion = @ + 1]
    ELSE s

\* if (description !== undefined) updates.description = description
ApplyUpdates(s, a) ==
    IF a.hasDescription THEN [s EXCEPT !.description = a.description] ELSE s

\* tx.secret.update, commit, kek.fill(0), auditService.log, return
UpdateTxCommit(r) ==
    /\ req[r].pc = "up_tx_commit"
    /\ LET a == req[r].arg
           l == req[r].loc
           v == CHOOSE x \in tx[r].versions : TRUE
           s == CHOOSE x \in ById(l.secret.id) : TRUE
           updated == PointerFields(ApplyUpdates(s, a), l.newVersion, v)
       IN  /\ secrets' = (secrets \ {s}) \cup {updated}
           /\ versions' = versions \cup {v}
           /\ \E createOk \in BOOLEAN :
                  req' = FinishAudited(r, [id |-> updated.id,
                                           version |-> updated.currentVersion],
                                       {}, "secret.update", createOk)
    /\ tx' = [tx EXCEPT ![r] = NoTx]
    /\ UNCHANGED <<masterKey, orgs, opCount, rnd, nextId, clock, kekLog>>

\* "Just metadata update": prisma.secret.update({ where: { id } }), return;
\* no auditService.log on this path.
UpdateMeta(r) ==
    /\ req[r].pc = "up_meta"
    /\ LET a == req[r].arg
           l == req[r].loc
           row == ById(l.secret.id)
       IN  IF row = {}
           THEN /\ req' = Finish(r, "RecordNotFoundError", <<>>, {}, <<>>)
                /\ secrets' = secrets
           ELSE LET s == CHOOSE x \in row : TRUE
                    updated == ApplyUpdates(s, a)
                IN  /\ secrets' = (secrets \ {s}) \cup {updated}
                    /\ req' = Finish(r, "ok",
                                     [id |-> updated.id, version |-> updated.currentVersion],
                                     {}, <<>>)
    /\ UNCHANGED <<masterKey, orgs, versions, tx, opCount, rnd, nextId, clock, kekLog>>

(***************************************************************************)
(* SecretsService.getSecret                                                *)
(***************************************************************************)

StartGet(r) ==
    \E e \in EnvironmentIds, k \in SecretKeys, o \in Orgs, includeValue \in BOOLEAN :
        /\ Begin(r, "get", "get_find",
                 [environmentId |-> e, path |-> "/", key |-> k, orgId |-> o,
                  includeValue |-> includeValue])
        /\ UNCHANGED <<masterKey, orgs, secrets, versions, tx, rnd, nextId, clock, kekLog>>

\* findUnique({ environmentId_path_key, deletedAt: null }, include versions)
GetFind(r) ==
    /\ req[r].pc = "get_find"
    /\ LET a == req[r].arg
           found == {s \in ByTuple(a.environmentId, a.path, a.key) : ~s.deleted}
       IN  IF found = {}
           THEN req' = Finish(r, "NotFoundError", <<>>, {}, <<>>)
           ELSE LET s == CHOOSE x \in found : TRUE
                IN  IF a.includeValue
                    THEN req' = Goto(r, "get_decrypt",
                                     [secret |-> s, versions |-> CurrentVersionRows(s)])
                    ELSE req' = Finish(r, "ok",
                                       [id |-> s.id, version |-> s.currentVersion],
                                       {}, <<>>)
    /\ UNCHANGED <<masterKey, orgs, secrets, versions, tx, opCount, rnd, nextId, clock, kekLog>>

\* organization.findUnique, decryptOrgKEK, decryptSecret(secret.versions[0]),
\* kek.fill(0), auditService.log, return.  A throw of decryptSecret (or of
\* reading a field of an undefined versions[0]) skips kek.fill(0).
GetDecrypt(r) ==
    /\ req[r].pc = "get_decrypt"
    /\ LET a == req[r].arg
           l == req[r].loc
           k == decryptOrgKEK(orgs[a.orgId].encryptedKek)
       IN  IF ~k.ok
           THEN req' = Finish(r, "CryptoError", <<>>, {}, <<>>)
           ELSE IF l.versions = {}
           THEN req' = Finish(r, "TypeError", <<>>, {"kek"}, <<>>)
           ELSE LET version == CHOOSE v \in l.versions : TRUE
                    result == decryptSecret(BundleOf(version), k.kek)
                IN  IF ~result.ok
                    THEN req' = Finish(r, "CryptoError", <<>>,
                                       {"kek"} \cup result.unwiped, <<>>)
                    ELSE \E createOk \in BOOLEAN :
                             req' = FinishAudited(r, [id |-> l.secret.id,
                                                      version |-> l.secret.currentVersion,
                                                      value |-> result.plaintext],
                                                  result.unwiped, "secret.read", createOk)
    /\ UNCHANGED <<masterKey, orgs, secrets, versions, tx, opCount, rnd, nextId, clock, kekLog>>

(***************************************************************************)
(* SecretsService.listSecrets                                              *)
(***************************************************************************)

StartList(r) ==
    \E e \in EnvironmentIds, o \in Orgs, includeValues \in BOOLEAN :
        /\ Begin(r, "list", "list_find",
                 [environmentId |-> e, orgId |-> o, includeValues |-> includeValues])
        /\ UNCHANGED <<masterKey, orgs, secrets, versions, tx, rnd, nextId, clock, kekLog>>

\* findMany({ environmentId, deletedAt: null }, include versions) and count
ListFind(r) ==
    /\ req[r].pc = "list_find"
    /\ LET a == req[r].arg
           page == {s \in secrets : s.environmentId = a.environmentId /\ ~s.deleted}
       IN  req' = Goto(r, "list_decrypt",
                       [page |-> {[secret |-> s, versions |-> CurrentVersionRows(s)]
                                  : s \in page}])
    /\ UNCHANGED <<masterKey, orgs, secrets, versions, tx, opCount, rnd, nextId, clock, kekLog>>

\* One element of the results of listSecrets: value stays undefined unless
\* includeValues && kek && secret.versions[0].
ListItem(item, includeValues, kek) ==
    IF includeValues /\ item.versions # {}
    THEN LET version == CHOOSE v \in item.versions : TRUE
             result == decryptSecret(BundleOf(version), kek)
         IN  IF result.ok
             THEN [ok |-> TRUE, id |-> item.secret.id,
                   version |-> item.secret.currentVersion,
                   value |-> <<result.plaintext>>, unwiped |-> {}]
             ELSE [ok |-> FALSE, id |-> item.secret.id,
                   version |-> item.secret.currentVersion,
                   value |-> <<>>, unwiped |-> result.unwiped]
    ELSE [ok |-> TRUE, id |-> item.secret.id,
          version |-> item.secret.currentVersion, value |-> <<>>, unwiped |-> {}]

\* decryptOrgKEK once if includeValues && secrets.length > 0, Promise.all
\* over the page, `if (kek) kek.fill(0)`, auditService.log, return
ListDecrypt(r) ==
    /\ req[r].pc = "list_decrypt"
    /\ LET a == req[r].arg
           l == req[r].loc
           unwrap == a.includeValues /\ l.page # {}
           k == decryptOrgKEK(orgs[a.orgId].encryptedKek)
           items == {ListItem(i, a.includeValues, k.kek) : i \in l.page}
           ret == [secrets |-> {[id |-> i.id, version |-> i.version,
                                 value |-> i.value] : i \in items},
                   total |-> Cardinality(l.page)]
       IN  IF unwrap /\ ~k.ok
           THEN req' = Finish(r, "CryptoError", <<>>, {}, <<>>)
           ELSE IF unwrap /\ \E i \in items : ~i.ok
           THEN req' = Finish(r, "CryptoError", <<>>,
                              {"kek"} \cup UNION {i.unwiped : i \in items}, <<>>)
           ELSE IF a.includeValues
           THEN \E createOk \in BOOLEAN :
                    req' = FinishAudited(r, ret, {}, "secret.list_with_values", createOk)
           ELSE req' = Finish(r, "ok", ret, {}, <<>>)
    /\ UNCHANGED <<masterKey, orgs, secrets, versions, tx, opCount, rnd, nextId, clock, kekLog>>

(***************************************************************************)
(* SecretsService.deleteSecret                                             *)
(***************************************************************************)

StartDelete(r) ==
    \E e \in EnvironmentIds, k \in SecretKeys, o \in Orgs, permanent \in BOOLEAN :
        /\ Begin(r, "delete", "del_find",
                 [environmentId |-> e, path |-> "/", key |-> k, orgId |-> o,
                  permanent |-> permanent])
        /\ UNCHANGED <<masterKey, orgs, secrets, versions, tx, rnd, nextId, clock, kekLog>>

\* findUnique({ environmentId_path_key }): deleted rows are found too
DeleteFind(r) ==
    /\ req[r].pc = "del_find"
    /\ LET a == req[r].arg
           found == ByTuple(a.environmentId, a.path, a.key)
       IN  IF found = {}
           THEN req' = Finish(r, "NotFoundError", <<>>, {}, <<>>)
           ELSE req' = Goto(r, "del_apply", [secret |-> CHOOSE s \in found : TRUE])
    /\ UNCHANGED <<masterKey, orgs, secrets, versions, tx, opCount, rnd, nextId, clock, kekLog>>

\* The SecretVersion rows that go with a Secret row when it is deleted.
OnDeleteCascade(secretId) == VersionsOf(secretId)

\* A deleteSecret that soft-deletes whatever `permanent` says.
DeleteApplySoftOnly(r) ==
    /\ req[r].pc = "del_apply"
    /\ LET l == req[r].loc
           row == ById(l.secret.id)
       IN  IF row = {}
           THEN /\ req' = Finish(r, "RecordNotFoundError", <<>>, {}, <<>>)
                /\ UNCHANGED <<secrets, versions>>
           ELSE LET s == CHOOSE x \in row : TRUE
                IN  /\ secrets' = (secrets \ {s}) \cup {[s EXCEPT !.deleted = TRUE]}
                    /\ versions' = versions
                    /\ req' = Finish(r, "ok", <<>>, {}, <<>>)
    /\ UNCHANGED <<masterKey, orgs, tx, opCount, rnd, nextId, clock, kekLog>>

\* prisma.secret.delete (the versions go with their secret) or
\* prisma.secret.update({ deletedAt }), then auditService.log
DeleteApply(r) ==
    /\ req[r].pc = "del_apply"
    /\ LET a == req[r].arg
           l == req[r].loc
           row == ById(l.secret.id)
       IN  IF row = {}
           THEN /\ req' = Finish(r, "RecordNotFoundError", <<>>, {}, <<>>)
                /\ UNCHANGED <<secrets, versions>>
           ELSE LET s == CHOOSE x \in row : TRUE
                IN  IF a.permanent
                    THEN /\ \A q \in Reqs : \A v \in tx[q].versions : v.secretId # s.id
                         /\ secrets' = secrets \ {s}
                         /\ versions' = versions \ OnDeleteCascade(s.id)
                         /\ \E createOk \in BOOLEAN :
                                req' = FinishAudited(r, <<>>, {},
                                                     "secret.delete_permanent", createOk)
                    ELSE /\ secrets' = (secrets \ {s}) \cup {[s EXCEPT !.deleted = TRUE]}
                         /\ versions' = versions
                         /\ \E createOk \in BOOLEAN :
                                req' = FinishAudited(r, <<>>, {}, "secret.delete", createOk)
    /\ UNCHANGED <<masterKey, orgs, tx, opCount, rnd, nextId, clock, kekLog>>

(***************************************************************************)
(* SecretsService.rollbackToVersion                                        *)
(***************************************************************************)

MaxTarget == 3  \* highest targetVersion a rollback asks for

\* secretId is whatever the caller passes: the id of a secret that exists,
\* an id no row ever had (0), or the id the first secret was given (1),
\* which may have been purged since.
StartRollback(r) ==
    \E sid \in {s.id : s \in secrets} \cup {0, 1}, t \in 1..MaxTarget, o \in Orgs :
        /\ Begin(r, "rollback", "rb_read",
                 [secretId |-> sid, targetVersion |-> t, orgId |-> o])
        /\ UNCHANGED <<masterKey, orgs, secrets, versions, tx, rnd, nextId, clock, kekLog>>

\* `if (!secret || !targetVersionData) throw new NotFoundError`, then
\* newVersion = secret.currentVersion + 1; reached once both queries of the
\* Promise.all have answered.
RollbackAfterReads(r, secret, targetVersionData) ==
    IF secret = {} \/ targetVersionData = {}
    THEN Finish(r, "NotFoundError", <<>>, {}, <<>>)
    ELSE LET s == CHOOSE x \in secret : TRUE
         IN  Goto(r, "rb_tx_create",
                  [secret |-> s,
                   targetVersionData |-> CHOOSE v \in targetVersionData : TRUE,
                   newVersion |-> NextVersion(s)])

\* prisma.secret.findUnique({ where: { id: secretId } }): one of the two
\* queries of the Promise.all; the database answers them in either order.
RollbackReadSecret(r) ==
    /\ req[r].pc \in {"rb_read", "rb_read_secret"}
    /\ LET secret == ById(req[r].arg.secretId)
       IN  IF req[r].pc = "rb_read"
           THEN req' = Goto(r, "rb_read_version", [secret |-> secret])
           ELSE req' = RollbackAfterReads(r, secret, req[r].loc.targetVersionData)
    /\ UNCHANGED <<masterKey, orgs, secrets, versions, tx, opCount, rnd, nextId, clock, kekLog>>

\* prisma.secretVersion.findUnique({ secretId_version })
RollbackReadVersion(r) ==
    /\ req[r].pc \in {"rb_read", "rb_read_version"}
    /\ LET a == req[r].arg
           targetVersionData == {v \in versions : v.secretId = a.secretId
                                                  /\ v.version = a.targetVersion}
       IN  IF req[r].pc = "rb_read"
           THEN req' = Goto(r, "rb_read_secret", [targetVersionData |-> targetVersionData])
           ELSE req' = RollbackAfterReads(r, req[r].loc.secret, targetVersionData)
    /\ UNCHANGED <<masterKey, orgs, secrets, versions, tx, opCount, rnd, nextId, clock, kekLog>>

\* A rollback that copies the current version instead of the target.
RollbackTxInsertCurrent(r) ==
    /\ req[r].pc = "rb_tx_create"
    /\ LET l == req[r].loc
           t == CHOOSE v \in CurrentVersionRows(l.secret) : TRUE
       IN  TxInsertVersion(r, [t EXCEPT !.id = nextId + 1, !.version = l.newVersion],
                           {}, "rb_tx_commit")
    /\ UNCHANGED <<masterKey, orgs, secrets, versions, opCount, rnd, clock, kekLog>>

\* tx.secretVersion.create with the target version's encrypted fields
RollbackTxInsert(r) ==
    /\ req[r].pc = "rb_tx_create"
    /\ LET l == req[r].loc
           t == l.targetVersionData
       IN  TxInsertVersion(r, [t EXCEPT !.id = nextId + 1, !.version = l.newVersion],
                           {}, "rb_tx_commit")
    /\ UNCHANGED <<masterKey, orgs, secrets, versions, opCount, rnd, clock, kekLog>>

\* A rollback that moves the target row to the new number instead of
\* adding a copy of it.
RollbackTxCommitInPlace(r) ==
    /\ req[r].pc = "rb_tx_commit"
    /\ LET l == req[r].loc
           v == CHOOSE x \in tx[r].versions : TRUE
           s == CHOOSE x \in ById(l.secret.id) : TRUE
           old == {w \in versions : w.secretId = s.id
                                    /\ w.version = req[r].arg.targetVersion}
       IN  /\ secrets' = (secrets \ {s}) \cup {PointerFields(s, l.newVersion, v)}
           /\ versions' = (versions \ old) \cup {v}
           /\ req' = Finish(r, "ok", [id |-> l.secret.id, version |-> l.newVersion],
                            {}, <<>>)
    /\ tx' = [tx EXCEPT ![r] = NoTx]
    /\ UNCHANGED <<masterKey, orgs, opCount, rnd, nextId, clock, kekLog>>

\* tx.secret.update, commit, auditService.log, return
RollbackTxCommit(r) ==
    /\ req[r].pc = "rb_tx_commit"
    /\ LET l == req[r].loc
           v == CHOOSE x \in tx[r].versions : TRUE
           s == CHOOSE x \in ById(l.secret.id) : TRUE
       IN  /\ secrets' = (secrets \ {s}) \cup {PointerFields(s, l.newVersion, v)}
           /\ versions' = versions \cup {v}
           /\ \E createOk \in BOOLEAN :
                  req' = FinishAudited(r, [id |-> l.secret.id, version |-> l.newVersion],
                                       {}, "secret.rollback", createOk)
    /\ tx' = [tx EXCEPT ![r] = NoTx]
    /\ UNCHANGED <<masterKey, orgs, opCount, rnd, nextId, clock, kekLog>>

(***************************************************************************)
(* KEK rotation of one organization: the caller of rotateOrgKEK            *)
(*                                                                         *)
(* One database transaction reads the organization's wrapped KEK and every *)
(* SecretVersion, calls EncryptionService.rotateOrgKEK, and persists the   *)
(* new wrapped KEK, the new kekVersion and every re-wrapped DEK; a throw   *)
(* persists nothing.                                                       *)
(***************************************************************************)

RECURSIVE SortById(_)
SortById(rows) ==
    IF rows = {} THEN <<>>
    ELSE LET first == CHOOSE x \in rows : \A y \in rows : x.id <= y.id
         IN  <<first>> \o SortById(rows \ {first})

DekList(rows) ==
    LET sorted == SortById(rows)
    IN  [i \in 1..Len(sorted) |-> [id |-> sorted[i].id, encryptedDek |-> sorted[i].encryptedDek]]

\* The rows after the re-wrapped DEKs and the new stamp are written.
ApplyRotation(rows, updatedSecrets, newVersion) ==
    {IF \E i \in 1..Len(updatedSecrets) : updatedSecrets[i].id = v.id
     THEN LET i == CHOOSE j \in 1..Len(updatedSecrets) : updatedSecrets[j].id = v.id
          IN  [v EXCEPT !.encryptedDek = updatedSecrets[i].encryptedDek,
                        !.kekVersion = newVersion]
     ELSE v : v \in rows}

StartRotate(r) ==
    \E o \in Orgs :
        /\ Begin(r, "rotate", "rot_run", [orgId |-> o])
        /\ UNCHANGED <<masterKey, orgs, secrets, versions, tx, rnd, nextId, clock, kekLog>>

RotateRun(r) ==
    /\ req[r].pc = "rot_run"
    /\ \E now \in {clock, clock + 1} :
        LET o == req[r].arg.orgId
            list == DekList(versions)
            res == rotateOrgKEK(orgs[o].encryptedKek, list, rnd + 1, rnd + 2, rnd + 2, now)
        IN  /\ clock' = now
            /\ rnd' = rnd + 2 + Len(list)
            /\ IF res.ok
               THEN /\ orgs' = [orgs EXCEPT ![o] = [encryptedKek |-> res.newEncryptedKek,
                                                    kekVersion |-> res.newVersion]]
                    /\ versions' = ApplyRotation(versions, res.updatedSecrets, res.newVersion)
                    /\ kekLog' = kekLog \cup {[orgId |-> o, kekVersion |-> res.newVersion,
                                               kek |-> rnd + 1]}
                    /\ req' = Finish(r, "ok",
                                     [newEncryptedKek |-> res.newEncryptedKek,
                                      updatedSecrets |-> res.updatedSecrets,
                                      newVersion |-> res.newVersion,
                                      input |-> list],
                                     res.unwiped, <<>>)
               ELSE /\ UNCHANGED <<orgs, versions, kekLog>>
                    /\ req' = Finish(r, "CryptoError", [input |-> list], res.unwiped, <<>>)
    /\ UNCHANGED <<masterKey, secrets, tx, opCount, nextId>>

(***************************************************************************)
(* The service under concurrent requests                                   *)
(***************************************************************************)

\* No API key, no user and no token: the secrets service alone.
NoAccounts ==
    /\ apiKeys = {}
    /\ users = {}
    /\ redis = [refresh |-> {}, blacklist |-> {}]

\* The master key that wrapped the organization's KEK when it was created.
ProvisioningMasterKey == 1

\* MASTER_KEY as the constructor reads it: the provisioning key, or another
\* well-formed key.  The database holds one organization and no secret.
Init ==
    /\ masterKey \in {ProvisioningMasterKey, ProvisioningMasterKey + 1}
    /\ orgs = [o \in Orgs |-> [encryptedKek |-> WrapKEK(ProvisioningMasterKey, 3, 4),
                               kekVersion |-> 1]]
    /\ kekLog = {[orgId |-> o, kekVersion |-> 1, kek |-> 3] : o \in Orgs}
    /\ secrets = {}
    /\ versions = {}
    /\ tx = [r \in Reqs |-> NoTx]
    /\ req = [r \in Reqs |-> Idle]
    /\ opCount = 0
    /\ rnd = 4
    /\ nextId = 0
    /\ clock = 2
    /\ NoAccounts

Next ==
    /\ UNCHANGED <<apiKeys, users, redis>>
    /\ \E r \in Reqs :
        \/ StartCreate(r) \/ CreateFind(r) \/ CreateEncrypt(r)
        \/ CreateTxInsert(r) \/ CreateTxCommit(r)
        \/ StartUpdate(r) \/ UpdateFind(r) \/ UpdateEncrypt(r)
        \/ UpdateTxInsert(r) \/ UpdateTxCommit(r) \/ UpdateMeta(r)
        \/ StartGet(r) \/ GetFind(r) \/ GetDecrypt(r)
        \/ StartList(r) \/ ListFind(r) \/ ListDecrypt(r)
        \/ StartDelete(r) \/ DeleteFind(r) \/ DeleteApply(r)
        \/ StartRollback(r) \/ RollbackReadSecret(r) \/ RollbackReadVersion(r)
        \/ RollbackTxInsert(r) \/ RollbackTxCommit(r)
        \/ StartRotate(r) \/ RotateRun(r)

Spec == Init /\ [][Next]_vars

(***************************************************************************)
(* Concurrent value updates of one secret                                  *)
(***************************************************************************)

\* What one createSecret leaves behind: a secret at currentVersion = 1.
InitUpdate ==
    /\ masterKey = ProvisioningMasterKey
    /\ orgs = [o \in Orgs |-> [encryptedKek |-> WrapKEK(ProvisioningMasterKey, 3, 4),
                               kekVersion |-> 1]]
    /\ kekLog = {[orgId |-> o, kekVersion |-> 1, kek |-> 3] : o \in Orgs}
    /\ secrets = {[id |-> 1, environmentId |-> "env1", path |-> "/",
                   key |-> "DB_PASSWORD",
                   keyHash |-> createBlindIndex("DB_PASSWORD", "org1"),
                   description |-> "", currentVersion |-> 1,
                   currentVersionId |-> 2, deleted |-> FALSE]}
    /\ versions = {VersionRow(2, 1, 1, encryptSecret(<<"a">>, 3, 1, 5, 6, 7))}
    /\ tx = [r \in Reqs |-> NoTx]
    /\ req = [r \in Reqs |-> Idle]
    /\ opCount = 0
    /\ rnd = 7
    /\ nextId = 2
    /\ clock = 2
    /\ NoAccounts

\* Every request makes one value-changing updateSecret call.
StartValueUpdate(r) ==
    /\ req[r].pc = "idle"
    /\ StartUpdate(r)
    /\ req'[r].arg.hasValue

NextUpdate ==
    /\ UNCHANGED <<apiKeys, users, redis>>
    /\ \E r \in Reqs :
        \/ StartValueUpdate(r) \/ UpdateFind(r) \/ UpdateEncrypt(r)
        \/ UpdateTxInsert(r) \/ UpdateTxCommit(r)

SpecUpdate == InitUpdate /\ [][NextUpdate]_vars

VersionNumbers(secretId) == {v.version : v \in VersionsOf(secretId)}

AllSucceeded == \A r \in Reqs : req[r].pc = "done" /\ req[r].result = "ok"

\* C1: N concurrent value-changing updateSecret calls on a secret at
\* currentVersion = 1: in every state the committed version numbers are
\* pairwise distinct and currentVersion is the highest of them, and once
\* all N calls have succeeded the chain holds exactly the numbers 1..N+1.
C1_VersionMonotonicity ==
    \A s \in secrets :
        /\ Cardinality(VersionsOf(s.id)) = Cardinality(VersionNumbers(s.id))
        /\ s.currentVersion \in VersionNumbers(s.id)
        /\ \A n \in VersionNumbers(s.id) : n <= s.currentVersion
        /\ AllSucceeded =>
              /\ VersionNumbers(s.id) = 1..(NumReqs + 1)
              /\ s.currentVersion = NumReqs + 1

C1_Witness ==
    /\ AllSucceeded
    /\ \A r \in Reqs : req[r].op = "update" /\ req[r].arg.hasValue
    /\ \E s \in secrets : Cardinality(VersionsOf(s.id)) = NumReqs + 1

(***************************************************************************)
(* Concurrent createSecret calls for one tuple                             *)
(***************************************************************************)

StartCreateOnce(r) ==
    /\ req[r].pc = "idle"
    /\ StartCreate(r)

NextCreate ==
    /\ UNCHANGED <<apiKeys, users, redis>>
    /\ \E r \in Reqs :
        \/ StartCreateOnce(r) \/ CreateFind(r) \/ CreateEncrypt(r)
        \/ CreateTxInsert(r) \/ CreateTxCommit(r)

SpecCreate == Init /\ [][NextCreate]_vars

\* C2: when two createSecret calls for the same tuple have both finished,
\* exactly one has succeeded, the other has failed with ConflictError, and
\* exactly one active Secret row is at the tuple.
C2_ConcurrentCreate ==
    \A r1, r2 \in Reqs :
        (/\ r1 # r2
         /\ masterKey = ProvisioningMasterKey
         /\ req[r1].op = "create" /\ req[r1].pc = "done"
         /\ req[r2].op = "create" /\ req[r2].pc = "done"
         /\ req[r1].arg.key = req[r2].arg.key
         /\ req[r1].arg.environmentId = req[r2].arg.environmentId)
        => /\ {req[r1].result, req[r2].result} = {"ok", "ConflictError"}
           /\ Cardinality({s \in ByTuple(req[r1].arg.environmentId, "/", req[r1].arg.key)
                           : ~s.deleted}) = 1

(***************************************************************************)
(* Key hierarchy and pointer claims, under Spec                            *)
(***************************************************************************)

\* The KEK a wrapped DEK was made under, read off the wrap itself.
WrappingKek(encryptedDek) == B64Decode(SplitColon(encryptedDek).ciphertextB64).k

\* The KEK an organization row holds, read off its wrap.
PersistedKek(o) == B64Decode(SplitColon(orgs[o].encryptedKek).ciphertextB64).p[1]

Finished(r, op) == req[r].op = op /\ req[r].pc = "done"

\* C3: every persisted SecretVersion's encryptedDek is wrapped under the
\* KEK its kekVersion stamp names, and unwraps under the KEK the
\* organization row currently holds.
C3_KekStampConsistent ==
    \A v \in versions : \A o \in Orgs :
        /\ [orgId |-> o, kekVersion |-> v.kekVersion, kek |-> WrappingKek(v.encryptedDek)]
              \in kekLog
        /\ decryptDEK(v.encryptedDek, PersistedKek(o)).ok

\* C4: every committed Secret's currentVersionId references a SecretVersion
\* of the same secret whose version number is the Secret's currentVersion.
C4_PointerConsistent ==
    \A s \in secrets :
        \E v \in versions :
            /\ v.id = s.currentVersionId
            /\ v.secretId = s.id
            /\ v.version = s.currentVersion

C4_Witness ==
    \E s \in secrets :
        /\ s.currentVersion = 3
        /\ \E r \in Reqs : Finished(r, "rollback") /\ req[r].result = "ok"
        /\ \E r \in Reqs : req[r].pc \in {"up_tx_commit", "rb_tx_commit"}

RotationReturns(r) == req[r].pc = "rot_run" /\ req'[r].pc = "done"

EntryIds(list) == [i \in 1..Len(list) |-> list[i].id]

\* C5: a rotateOrgKEK call either returns a new wrapped KEK with exactly one
\* re-wrapped entry for every id of its input list, in which case the new
\* wrapped KEK is the one persisted, or it throws, returns nothing, and the
\* organization row and every SecretVersion row stay as they were.
C5_RotationAllOrNothing ==
    [][\A r \in Reqs :
          RotationReturns(r) =>
              IF req'[r].result = "ok"
              THEN /\ EntryIds(req'[r].ret.updatedSecrets) = EntryIds(req'[r].ret.input)
                   /\ orgs'[req[r].arg.orgId].encryptedKek = req'[r].ret.newEncryptedKek
                   /\ \A i \in 1..Len(req'[r].ret.updatedSecrets) :
                         \E v \in versions' :
                             /\ v.id = req'[r].ret.updatedSecrets[i].id
                             /\ v.encryptedDek = req'[r].ret.updatedSecrets[i].encryptedDek
              ELSE /\ DOMAIN req'[r].ret = {"input"}
                   /\ orgs' = orgs
                   /\ versions' = versions]_vars

\* A rotation over a non-empty list has failed on one DEK of the batch.
C5_Witness ==
    \E r \in Reqs :
        /\ Finished(r, "rotate")
        /\ req[r].result = "CryptoError"
        /\ masterKey = ProvisioningMasterKey
        /\ Len(req[r].ret.input) >= 2

\* C6: after a successful rotation every SecretVersion that existed before
\* it decrypts, under the KEK unwrapped from the new encryptedKek, to the
\* plaintext it decrypted to before, and no longer decrypts under the old KEK.
C6_RotationPreservesPlaintext ==
    [][\A r \in Reqs :
          (RotationReturns(r) /\ req'[r].result = "ok") =>
              LET o == req[r].arg.orgId
                  oldKek == decryptOrgKEK(orgs[o].encryptedKek).kek
                  new == decryptOrgKEK(orgs'[o].encryptedKek)
              IN  /\ new.ok
                  /\ \A v \in versions :
                        \E w \in versions' :
                            /\ w.id = v.id
                            /\ decryptSecret(BundleOf(v), oldKek).ok
                            /\ decryptSecret(BundleOf(w), new.kek).ok
                            /\ decryptSecret(BundleOf(w), new.kek).plaintext
                                   = decryptSecret(BundleOf(v), oldKek).plaintext
                            /\ ~decryptSecret(BundleOf(w), oldKek).ok]_vars

\* A rotation over at least two versions has succeeded.
C6_Witness ==
    \E r \in Reqs :
        /\ Finished(r, "rotate")
        /\ req[r].result = "ok"
        /\ Len(req[r].ret.updatedSecrets) >= 2

KnownKeks == {e.kek : e \in kekLog}

ThrowsOnKeyMismatch(r) ==
    /\ req[r].op \in {"get", "create", "update"}
    /\ req[r].pc # "done"
    /\ req'[r].pc = "done"
    /\ req'[r].result = "CryptoError"

C10_KeysWipedOnEveryExit ==
    \A r \in Reqs : req[r].pc = "done" => req[r].unwiped = {}

(***************************************************************************)
(* EncryptionService called directly: encryptSecret, a store that may be   *)
(* written to behind the service's back, decryptSecret                     *)
(***************************************************************************)

Plaintexts == {<<>>, <<"a">>, <<"a", "b">>, <<"hs", "ls">>, <<"hs">>, <<"a", "ls">>}
TestKeks == {3, 8}
KeyVersions == {1, 2}

\* encryptSecret(plaintext, orgKek, keyVersion)
CallEncryptSecret(r) ==
    \E P \in Plaintexts, K \in TestKeks, n \in KeyVersions :
        /\ req[r].pc = "idle"
        /\ req' = [req EXCEPT ![r] =
                      [Idle EXCEPT !.op = "decryptSecret", !.pc = "encrypted",
                                   !.arg = [plaintext |-> P, orgKek |-> K, keyVersion |-> n],
                                   !.loc = [bundle |-> encryptSecret(P, K, n, rnd + 1,
                                                                     rnd + 2, rnd + 3),
                                            dek |-> rnd + 1, ivDek |-> rnd + 2,
                                            iv |-> rnd + 3, tampered |-> "none"]]]
        /\ rnd' = rnd + 3
        /\ opCount' = opCount + 1
        /\ UNCHANGED <<masterKey, orgs, secrets, versions, tx, nextId, clock, kekLog>>

Spellings(byteStrings) == {[b |-> x, alt |-> a] : x \in byteStrings, a \in BOOLEAN}

\* Byte strings an attacker may put in place of a field.
OtherCiphertexts(l) ==
    {GcmCiphertext(d, i, Utf8Encode(P)) :
        d \in {l.dek, l.dek + 50}, i \in {l.iv, l.iv + 50}, P \in Plaintexts}

OtherWraps(l) ==
    {GcmCiphertext(K, i, <<d>>) :
        K \in TestKeks, i \in {l.ivDek, l.ivDek + 50}, d \in {l.dek, l.dek + 50}}

Replacements(l, field) ==
    CASE field = "ciphertext" -> Spellings(OtherCiphertexts(l))
      [] field = "authTag" ->
            Spellings({GcmTag(d, i, c) : d \in {l.dek, l.dek + 50},
                                         i \in {l.iv, l.iv + 50},
                                         c \in OtherCiphertexts(l)})
      [] field = "encryptedDek.iv" -> Spellings({l.ivDek, l.ivDek + 50})
      [] field = "encryptedDek.authTag" ->
            Spellings({GcmTag(K, i, c) : K \in TestKeks,
                                         i \in {l.ivDek, l.ivDek + 50},
                                         c \in OtherWraps(l)})
      [] field = "encryptedDek.ciphertext" -> Spellings(OtherWraps(l))

TamperFields == {"ciphertext", "authTag", "encryptedDek.iv", "encryptedDek.authTag",
                 "encryptedDek.ciphertext"}

FieldOf(bundle, field) ==
    CASE field = "ciphertext" -> bundle.ciphertext
      [] field = "authTag" -> bundle.authTag
      [] field = "encryptedDek.iv" -> SplitColon(bundle.encryptedDek).ivB64
      [] field = "encryptedDek.authTag" -> SplitColon(bundle.encryptedDek).authTagB64
      [] field = "encryptedDek.ciphertext" -> SplitColon(bundle.encryptedDek).ciphertextB64

WithField(bundle, field, str) ==
    LET parts == SplitColon(bundle.encryptedDek)
    IN  CASE field = "ciphertext" -> [bundle EXCEPT !.ciphertext = str]
          [] field = "authTag" -> [bundle EXCEPT !.authTag = str]
          [] field = "encryptedDek.iv" ->
                [bundle EXCEPT !.encryptedDek =
                    JoinColon(str, parts.authTagB64, parts.ciphertextB64)]
          [] field = "encryptedDek.authTag" ->
                [bundle EXCEPT !.encryptedDek =
                    JoinColon(parts.ivB64, str, parts.ciphertextB64)]
          [] field = "encryptedDek.ciphertext" ->
                [bundle EXCEPT !.encryptedDek =
                    JoinColon(parts.ivB64, parts.authTagB64, str)]

\* One stored field of the bundle is replaced by a different string.
TamperBundle(r) ==
    /\ req[r].pc = "encrypted"
    /\ req[r].loc.tampered = "none"
    /\ \E field \in TamperFields :
        \E str \in Replacements(req[r].loc, field) :
            /\ str # FieldOf(req[r].loc.bundle, field)
            /\ req' = [req EXCEPT ![r].loc =
                          [@ EXCEPT !.bundle = WithField(@, field, str),
                                    !.tampered = field]]
    /\ UNCHANGED <<masterKey, orgs, secrets, versions, tx, opCount, rnd, nextId, clock, kekLog>>

\* decryptSecret(bundle, kek)
CallDecryptSecret(r) ==
    /\ req[r].pc = "encrypted"
    /\ \E K \in TestKeks :
        LET result == decryptSecret(req[r].loc.bundle, K)
        IN  req' = [req EXCEPT ![r] =
                       [@ EXCEPT !.pc = "done",
                                 !.arg = [plaintext |-> @.plaintext, orgKek |-> @.orgKek,
                                          keyVersion |-> @.keyVersion, kek |-> K],
                                 !.result = IF result.ok THEN "ok" ELSE "CryptoError",
                                 !.ret = IF result.ok
                                         THEN [plaintext |-> result.plaintext,
                                               keyVersion |-> result.keyVersion]
                                         ELSE <<>>,
                                 !.unwiped = result.unwiped]]
    /\ UNCHANGED <<masterKey, orgs, secrets, versions, tx, opCount, rnd, nextId, clock, kekLog>>

InitCrypto == Init /\ masterKey = ProvisioningMasterKey

NextCrypto ==
    /\ UNCHANGED <<apiKeys, users, redis>>
    /\ \E r \in Reqs :
        /\ r = 1
        /\ \/ CallEncryptSecret(r)
           \/ TamperBundle(r)
           \/ CallDecryptSecret(r)

SpecCrypto == InitCrypto /\ [][NextCrypto]_vars

\* The bundle as encryptSecret returned it.
Original(r) ==
    encryptSecret(req[r].arg.plaintext, req[r].arg.orgKek, req[r].arg.keyVersion,
                  req[r].loc.dek, req[r].loc.ivDek, req[r].loc.iv)

Decrypted(r) == req[r].op = "decryptSecret" /\ req[r].pc = "done"

SameKek(r) == req[r].arg.kek = req[r].arg.orgKek

\* No surrogate code unit without its partner.
RECURSIVE WellFormed(_)
WellFormed(str) ==
    IF str = <<>> THEN TRUE
    ELSE IF str[1] = "hs"
         THEN Len(str) >= 2 /\ str[2] = "ls" /\ WellFormed(SubSeq(str, 3, Len(str)))
    ELSE str[1] # "ls" /\ WellFormed(Tail(str))

\* C7 as stated: for every plaintext P, KEK K and key version v,
\* decryptSecret(encryptSecret(P, K, v), K) returns plaintext P and
\* keyVersion v.
C7_RoundTripAnyString ==
    \A r \in Reqs :
        (Decrypted(r) /\ req[r].loc.tampered = "none" /\ SameKek(r)) =>
            /\ req[r].result = "ok"
            /\ req[r].ret.plaintext = req[r].arg.plaintext
            /\ req[r].ret.keyVersion = req[r].arg.keyVersion

\* C7 amended: for every plaintext P that is well-formed UTF-16 (the empty
\* string included), every KEK K and key version v,
\* decryptSecret(encryptSecret(P, K, v), K) returns plaintext P and
\* keyVersion v.
C7_RoundTripWellFormed ==
    \A r \in Reqs :
        (/\ Decrypted(r) /\ req[r].loc.tampered = "none" /\ SameKek(r)
         /\ WellFormed(req[r].arg.plaintext)) =>
            /\ req[r].result = "ok"
            /\ req[r].ret.plaintext = req[r].arg.plaintext
            /\ req[r].ret.keyVersion = req[r].arg.keyVersion

\* The empty string has made the round trip under key version 2.
C7_Witness ==
    \E r \in Reqs :
        /\ Decrypted(r) /\ req[r].loc.tampered = "none" /\ SameKek(r)
        /\ req[r].arg.plaintext = <<>>
        /\ req[r].arg.keyVersion = 2
        /\ req[r].result = "ok"

NoneInFlight(r) == \A q \in OtherTx(r) : req[q].pc \in {"idle", "done"}

NextSeq ==
    /\ UNCHANGED <<apiKeys, users, redis>>
    /\ \E r \in Reqs :
        /\ NoneInFlight(r)
        /\ \/ StartCreate(r) \/ CreateFind(r) \/ CreateEncrypt(r)
           \/ CreateTxInsert(r) \/ CreateTxCommit(r)
           \/ StartUpdate(r) \/ UpdateFind(r) \/ UpdateEncrypt(r)
           \/ UpdateTxInsert(r) \/ UpdateTxCommit(r) \/ UpdateMeta(r)
           \/ StartGet(r) \/ GetFind(r) \/ GetDecrypt(r)
           \/ StartList(r) \/ ListFind(r) \/ ListDecrypt(r)
           \/ StartDelete(r) \/ DeleteFind(r) \/ DeleteApply(r)
           \/ StartRollback(r) \/ RollbackReadSecret(r) \/ RollbackReadVersion(r)
           \/ RollbackTxInsert(r) \/ RollbackTxCommit(r)
           \/ StartRotate(r) \/ RotateRun(r)

SpecSeq == InitCrypto /\ [][NextSeq]_vars

\* The step in which a call of op returns or throws.
Returns(r, op) == req[r].op = op /\ req[r].pc # "done" /\ req'[r].pc = "done"

\* The rows at the tuple a call names, and the active ones among them.
RowsAt(a) == ByTuple(a.environmentId, a.path, a.key)

ActiveAt(a) == {s \in RowsAt(a) : ~s.deleted}

\* C11: while the secret at a tuple is soft-deleted, getSecret for the tuple
\* fails with NotFoundError, and createSecret at the tuple succeeds and
\* leaves an active secret at version 1 there.
C11_RecreateAfterSoftDelete ==
    [][\A r \in Reqs :
          /\ (Returns(r, "get") /\ RowsAt(req[r].arg) # {} /\ ActiveAt(req[r].arg) = {})
                 => req'[r].result = "NotFoundError"
          /\ (Returns(r, "create") /\ RowsAt(req[r].arg) # {} /\ ActiveAt(req[r].arg) = {})
                 => /\ req'[r].result = "ok"
                    /\ \E s \in secrets' :
                          /\ s.environmentId = req[r].arg.environmentId
                          /\ s.path = req[r].arg.path
                          /\ s.key = req[r].arg.key
                          /\ ~s.deleted
                          /\ s.currentVersion = 1]_vars

\* What a successful createSecret has persisted: one new Secret row at the
\* tuple with currentVersion = 1 and the blind index of the key name, and
\* one new SecretVersion row, version 1, that currentVersionId references.
CreatePersisted(a) ==
    \E s \in secrets' \ secrets :
        /\ secrets' \ secrets = {s}
        /\ s.environmentId = a.environmentId /\ s.path = a.path /\ s.key = a.key
        /\ ~s.deleted
        /\ s.currentVersion = 1
        /\ s.keyHash = createBlindIndex(a.key, a.orgId)
        /\ \E v \in versions' \ versions :
              /\ versions' \ versions = {v}
              /\ v.id = s.currentVersionId
              /\ v.secretId = s.id
              /\ v.version = 1

\* C12: createSecret at a tuple with an active secret fails with
\* ConflictError and changes no Secret or SecretVersion row; at any other
\* tuple it succeeds and, in the one step its transaction commits, persists
\* the Secret, its version 1 and the blind index.
C12_CreateContract ==
    [][\A r \in Reqs :
          Returns(r, "create") =>
              IF ActiveAt(req[r].arg) # {}
              THEN /\ req'[r].result = "ConflictError"
                   /\ secrets' = secrets
                   /\ versions' = versions
              ELSE /\ req'[r].result = "ok"
                   /\ CreatePersisted(req[r].arg)]_vars

(***************************************************************************)
(* The version chain, under Spec                                           *)
(***************************************************************************)

\* The steps that a KEK rotation and a permanent delete commit in.
IsRotationCommit == \E r \in Reqs : Returns(r, "rotate")

IsPermanentDelete ==
    \E r \in Reqs : req[r].pc = "del_apply" /\ req[r].arg.permanent /\ req'[r].pc = "done"

\* A value update or a rollback returns successfully in this step.
AppendsVersion(r) ==
    /\ req'[r].result = "ok"
    /\ \/ Returns(r, "update") /\ req[r].arg.hasValue
       \/ Returns(r, "rollback")

\* C13: no step of createSecret, updateSecret, rollbackToVersion, getSecret,
\* listSecrets or a soft deleteSecret changes or removes a SecretVersion row
\* that exists; a successful value update and a successful rollback each
\* add exactly one row, and no step adds more than one.
C13_VersionsAppendOnly ==
    [][/\ ~(IsRotationCommit \/ IsPermanentDelete) => versions \subseteq versions'
       /\ Cardinality(versions' \ versions) <= 1 \/ IsRotationCommit
       /\ \A r \in Reqs :
             AppendsVersion(r) => /\ versions \subseteq versions'
                                  /\ Cardinality(versions' \ versions) = 1]_vars

\* A secret's chain holds three rows after an update and a rollback.
C13_Witness ==
    /\ \E r \in Reqs : Finished(r, "rollback") /\ req[r].result = "ok"
    /\ \E r \in Reqs : Finished(r, "update") /\ req[r].result = "ok" /\ req[r].arg.hasValue
    /\ \E s \in secrets : Cardinality(VersionsOf(s.id)) = 3

(***************************************************************************)
(* rollbackToVersion, one call at a time                                   *)
(***************************************************************************)

TargetRows(a) == {v \in versions : v.secretId = a.secretId /\ v.version = a.targetVersion}

SameEncryptedFields(w, t) ==
    /\ w.encryptedValue = t.encryptedValue
    /\ w.encryptedDek = t.encryptedDek
    /\ w.iv = t.iv
    /\ w.authTag = t.authTag
    /\ w.algorithm = t.algorithm
    /\ w.kekVersion = t.kekVersion

\* The plaintext a SecretVersion row decrypts to under the organization's
\* persisted KEK.
PlaintextOf(v, o) == decryptSecret(BundleOf(v), PersistedKek(o)).plaintext

\* A rollback of secret s to its version t has appended the copy and moved
\* the pointer to it.
RollbackApplied(s, t) ==
    \E w \in versions' \ versions :
        /\ versions' = versions \cup {w}
        /\ w.secretId = s.id
        /\ w.version = s.currentVersion + 1
        /\ SameEncryptedFields(w, t)
        /\ \E s2 \in secrets' :
              /\ s2.id = s.id
              /\ s2.currentVersion = w.version
              /\ s2.currentVersionId = w.id
              /\ secrets' = (secrets \ {s}) \cup {s2}

\* The getSecret that returns in this step reads the secret as the
\* successful rollback of request q left it.
ReadsAfterRollback(r, q) ==
    /\ Returns(r, "get") /\ req[r].arg.includeValue
    /\ Finished(q, "rollback") /\ req[q].result = "ok"
    /\ \E s \in ActiveAt(req[r].arg) :
          s.id = req[q].ret.id /\ s.currentVersion = req[q].ret.version

SameButMetadata(s2, s) == s2 = [s EXCEPT !.description = s2.description]

\* C15: with calls made one after another, updateSecret on an active secret
\* succeeds; with a value it adds exactly one version, numbered
\* currentVersion + 1, and points currentVersion / currentVersionId at it;
\* with description only it leaves every SecretVersion row, currentVersion
\* and currentVersionId as they were and changes only the metadata of the
\* Secret row.
C15_UpdateFrame ==
    [][\A r \in Reqs :
          (Returns(r, "update") /\ ActiveAt(req[r].arg) # {}) =>
              \A s \in ActiveAt(req[r].arg) :
                  /\ req'[r].result = "ok"
                  /\ \E s2 \in secrets' :
                        /\ secrets' = (secrets \ {s}) \cup {s2}
                        /\ IF req[r].arg.hasValue
                           THEN \E w \in versions' \ versions :
                                    /\ versions' = versions \cup {w}
                                    /\ w.secretId = s.id
                                    /\ w.version = s.currentVersion + 1
                                    /\ s2.currentVersion = w.version
                                    /\ s2.currentVersionId = w.id
                                    /\ SameButMetadata(
                                           s2, [s EXCEPT !.currentVersion = w.version,
                                                         !.currentVersionId = w.id])
                           ELSE /\ versions' = versions
                                /\ s2.currentVersion = s.currentVersion
                                /\ s2.currentVersionId = s.currentVersionId
                                /\ s2.description = req[r].arg.description
                                /\ SameButMetadata(s2, s)]_vars

\* A description-only update has returned on a secret that is at version 2.
C15_Witness ==
    \E r \in Reqs :
        /\ Finished(r, "update") /\ req[r].result = "ok"
        /\ ~req[r].arg.hasValue
        /\ \E s \in secrets :
              /\ s.id = req[r].ret.id
              /\ s.description = req[r].arg.description
              /\ s.currentVersion = 2
              /\ Cardinality(VersionsOf(s.id)) = 2

(***************************************************************************)
(* deleteSecret, one call at a time                                        *)
(***************************************************************************)

Ids(rows) == {x.id : x \in rows}

TxIds(t) == Ids(t.secrets) \cup Ids(t.versions)

\* A row gets, when a transaction inserts it, an id no row has had; the rows
\* a step adds are the rows a transaction inserted; and a SecretVersion row
\* always belongs to a Secret row: what is purged stays purged.
NothingRestored ==
    /\ \A r \in Reqs : \A i \in TxIds(tx'[r]) \ TxIds(tx[r]) : i > nextId
    /\ Ids(secrets') \ Ids(secrets) \subseteq UNION {Ids(tx[r].secrets) : r \in Reqs}
    /\ Ids(versions') \ Ids(versions) \subseteq UNION {Ids(tx[r].versions) : r \in Reqs}
    /\ \A v \in versions' : v.secretId \in Ids(secrets')

\* A call returns a secret or a version only if its row exists.
ReadsOnlyExisting(r) ==
    /\ (Returns(r, "get") /\ req'[r].result = "ok") => req'[r].ret.id \in Ids(secrets)
    /\ (Returns(r, "list") /\ req'[r].result = "ok") =>
           Ids(req'[r].ret.secrets) \subseteq Ids(secrets)
    /\ (Returns(r, "rollback") /\ req'[r].result = "ok") =>
           req'[r].ret.id \in Ids(secrets')

\* C16: with calls made one after another, deleteSecret with permanent =
\* false only marks the Secret row deleted and keeps every SecretVersion;
\* with permanent = true it removes the Secret row and every SecretVersion
\* of it; on a tuple with no row it fails with NotFoundError and changes
\* nothing; and no step brings back a removed row or returns one.
C16_DeleteContract ==
    [][/\ NothingRestored
       /\ \A r \in Reqs :
             /\ ReadsOnlyExisting(r)
             /\ Returns(r, "delete") =>
                   IF RowsAt(req[r].arg) = {}
                   THEN /\ req'[r].result = "NotFoundError"
                        /\ secrets' = secrets
                        /\ versions' = versions
                   ELSE \A s \in RowsAt(req[r].arg) :
                            /\ req'[r].result = "ok"
                            /\ IF req[r].arg.permanent
                               THEN /\ secrets' = secrets \ {s}
                                    /\ versions' = {v \in versions : v.secretId # s.id}
                               ELSE /\ secrets' = (secrets \ {s})
                                                     \cup {[s EXCEPT !.deleted = TRUE]}
                                    /\ versions' = versions]_vars

\* A secret with two versions was purged, and a rollback to its version 1
\* that came after found nothing.
C16_Witness ==
    \E r, q \in Reqs :
        /\ Finished(r, "delete") /\ req[r].result = "ok" /\ req[r].arg.permanent
        /\ Finished(q, "rollback") /\ req[q].result = "NotFoundError"
        /\ req[q].arg.secretId = 1 /\ req[q].arg.targetVersion = 1
        /\ secrets = {} /\ versions = {}
        /\ nextId = 3

(***************************************************************************)
(* The audit sink                                                          *)
(***************************************************************************)

\* The call is a value-decrypting read or a mutation.
Auditable(r) ==
    \/ req[r].op \in {"create", "update", "delete", "rollback"}
    \/ req[r].op = "get" /\ req[r].arg.includeValue
    \/ req[r].op = "list" /\ req[r].arg.includeValues

\* C17: every value-decrypting read and every mutation that has returned
\* successfully has called auditService.log exactly once.
C17_AuditedExactlyOnce ==
    \A r \in Reqs :
        (req[r].pc = "done" /\ req[r].result = "ok" /\ Auditable(r))
            => Len(req[r].audited) = 1

\* The record request r would end with had the audit write gone the other way.
OtherAuditOutcome(r) ==
    LET e == req'[r].audited[1]
    IN  FinishAudited(r, req'[r].ret, req'[r].unwiped, e.action, ~e.stored)[r]

\* What a successful call has left in the database.
EffectCommitted(r) ==
    CASE req[r].op \in {"create", "update", "rollback"} ->
            \E s \in secrets' :
                /\ s.id = req'[r].ret.id
                /\ s.currentVersion = req'[r].ret.version
                /\ \E v \in versions' : v.id = s.currentVersionId
      [] req[r].op = "delete" ->
            \A s \in secrets' :
                (s.environmentId = req[r].arg.environmentId /\ s.key = req[r].arg.key)
                    => s.deleted /\ ~req[r].arg.permanent
      [] OTHER -> secrets' = secrets /\ versions' = versions

\* C18: whenever a call reaches auditService.log, it returns its result
\* with its effect committed, and the record it ends with is the one it
\* would end with under the other outcome of the audit write (stored or
\* failed), but for the stored flag of the audit entry.
C18_AuditFailureHarmless ==
    [][\A r \in Reqs :
          (req[r].pc # "done" /\ req'[r].pc = "done" /\ req'[r].audited # <<>>) =>
              /\ req'[r].result = "ok"
              /\ EffectCommitted(r)
              /\ OtherAuditOutcome(r)
                    = [req'[r] EXCEPT !.audited[1].stored = ~@]]_vars

\* A value update and a getSecret have both returned although the audit
\* sink stored neither entry.
C18_Witness ==
    \E r, q \in Reqs :
        /\ Finished(r, "update") /\ req[r].result = "ok" /\ req[r].arg.hasValue
        /\ req[r].audited # <<>> /\ ~req[r].audited[1].stored
        /\ Finished(q, "get") /\ req[q].result = "ok"
        /\ req[q].audited # <<>> /\ ~req[q].audited[1].stored
        /\ req[q].ret.version = 2

(***************************************************************************)
(* Process start: envSchema, the EncryptionService constructor, and the    *)
(* master-key operations served afterwards                                 *)
(***************************************************************************)

MASTER_KEY_LENGTH == 64    \* characters the two checks ask for
DEK_LENGTH == 32           \* bytes of an AES-256 key

\* A string of len characters: the hex digit d up to position hexLen, then
\* characters that are no hex digit.
HexThenOther(d, hexLen, len) == [i \in 1..len |-> IF i <= hexLen THEN d ELSE "z"]

IsHexDigit(c) == c \in {"0", "f"}

\* Buffer.from(str, 'hex'): one byte for each pair of hex digits, up to the
\* first pair that is not one; a trailing single character is dropped.
RECURSIVE HexDecode(_)
HexDecode(str) ==
    IF Len(str) < 2 THEN <<>>
    ELSE IF IsHexDigit(str[1]) /\ IsHexDigit(str[2])
         THEN <<(<<str[1], str[2]>>)>> \o HexDecode(SubSeq(str, 3, Len(str)))
    ELSE <<>>

\* process.env.MASTER_KEY: undefined, or a string.
MasterKeyValues ==
    {[defined |-> FALSE, str |-> <<>>]}
    \cup {[defined |-> TRUE, str |-> HexThenOther(d, h, n)] :
             d \in {"0", "f"},
             n \in {0, DEK_LENGTH, MASTER_KEY_LENGTH - 1, MASTER_KEY_LENGTH,
                    MASTER_KEY_LENGTH + 1, 2 * MASTER_KEY_LENGTH},
             h \in {0, 1, DEK_LENGTH, MASTER_KEY_LENGTH - 2, MASTER_KEY_LENGTH - 1,
                    MASTER_KEY_LENGTH, 2 * MASTER_KEY_LENGTH}}

\* MASTER_KEY: z.string().length(64)
EnvSchemaAccepts(v) == v.defined /\ Len(v.str) = MASTER_KEY_LENGTH

\* if (!masterKeyHex || masterKeyHex.length !== 64) throw
ConstructorAccepts(v) == v.defined /\ v.str # <<>> /\ Len(v.str) = MASTER_KEY_LENGTH

\* createCipheriv / createDecipheriv('aes-256-gcm', key, iv) throw unless
\* the key is 32 bytes long.
KeyLengthOk(key) == Len(key) = DEK_LENGTH

\* envSchema.safeParse(process.env); process.exit(1) when it fails
ParseEnv ==
    /\ req[1].pc = "env"
    /\ IF EnvSchemaAccepts(req[1].arg.MASTER_KEY)
       THEN req' = Goto(1, "constructor", <<>>)
       ELSE req' = Finish(1, "exit", <<>>, {}, <<>>)
    /\ UNCHANGED <<masterKey, orgs, secrets, versions, tx, opCount, rnd, nextId, clock, kekLog>>

\* new EncryptionService()
Construct ==
    /\ req[1].pc = "constructor"
    /\ IF ConstructorAccepts(req[1].arg.MASTER_KEY)
       THEN /\ masterKey' = HexDecode(req[1].arg.MASTER_KEY.str)
            /\ req' = Goto(1, "serving", <<>>)
       ELSE /\ masterKey' = masterKey
            /\ req' = Finish(1, "Error", <<>>, {}, <<>>)
    /\ UNCHANGED <<orgs, secrets, versions, tx, opCount, rnd, nextId, clock, kekLog>>

\* A call of op is served by the constructed service.
Serve(r, op) ==
    /\ r # 1
    /\ req[1].pc = "serving"
    /\ opCount < MaxOps
    /\ opCount' = opCount + 1

\* generateOrgKEK()
CallGenerateOrgKEK(r) ==
    /\ Serve(r, "generateOrgKEK")
    /\ IF KeyLengthOk(masterKey)
       THEN /\ req' = [req EXCEPT ![r] =
                          [Idle EXCEPT !.op = "generateOrgKEK", !.pc = "done",
                                       !.result = "ok",
                                       !.ret = generateOrgKEK(rnd + 1, rnd + 2)]]
            /\ rnd' = rnd + 2
       ELSE /\ req' = [req EXCEPT ![r] =
                          [Idle EXCEPT !.op = "generateOrgKEK", !.pc = "done",
                                       !.result = "RangeError", !.unwiped = {"kek"}]]
            /\ rnd' = rnd + 2
    /\ UNCHANGED <<masterKey, orgs, secrets, versions, tx, nextId, clock, kekLog>>

\* decryptOrgKEK(encryptedKek) of a wrap generateOrgKEK returned
CallDecryptOrgKEK(r) ==
    /\ Serve(r, "decryptOrgKEK")
    /\ req[r].op = "generateOrgKEK" /\ req[r].result = "ok"
    /\ LET encryptedKek == req[r].ret.encryptedKek
           k == decryptOrgKEK(encryptedKek)
       IN  req' = [req EXCEPT ![r] =
                      [Idle EXCEPT !.op = "decryptOrgKEK", !.pc = "done",
                                   !.arg = [encryptedKek |-> encryptedKek,
                                            kek |-> req[r].ret.kek],
                                   !.result = IF KeyLengthOk(masterKey) /\ k.ok
                                              THEN "ok" ELSE "CryptoError",
                                   !.ret = IF KeyLengthOk(masterKey) /\ k.ok
                                           THEN [kek |-> k.kek] ELSE <<>>]]
    /\ UNCHANGED <<masterKey, orgs, secrets, versions, tx, rnd, nextId, clock, kekLog>>

InitBoot ==
    /\ masterKey = <<>>
    /\ orgs = [o \in Orgs |-> [encryptedKek |-> WrapKEK(ProvisioningMasterKey, 3, 4),
                               kekVersion |-> 1]]
    /\ kekLog = {}
    /\ secrets = {}
    /\ versions = {}
    /\ tx = [r \in Reqs |-> NoTx]
    /\ \E v \in MasterKeyValues :
          req = [r \in Reqs |-> IF r = 1
                                THEN [Idle EXCEPT !.op = "process", !.pc = "env",
                                                  !.arg = [MASTER_KEY |-> v]]
                                ELSE Idle]
    /\ opCount = 0
    /\ rnd = 4
    /\ nextId = 0
    /\ clock = 2
    /\ NoAccounts

NextBoot ==
    /\ UNCHANGED <<apiKeys, users, redis>>
    /\ \/ ParseEnv
       \/ Construct
       \/ \E r \in Reqs : CallGenerateOrgKEK(r) \/ CallDecryptOrgKEK(r)

SpecBoot == InitBoot /\ [][NextBoot]_vars

\* C19: the service is constructed only with a master key that is present
\* and 32 bytes long once decoded, so every operation is served with a
\* 32-byte master key.
C19_MasterKeyLength ==
    /\ req[1].pc = "serving" => Len(masterKey) = DEK_LENGTH
    /\ \A r \in Reqs :
          req[r].op \in {"generateOrgKEK", "decryptOrgKEK"} => Len(masterKey) = DEK_LENGTH

(***************************************************************************)
(* Blind index: createSecret in the environments of two organizations      *)
(***************************************************************************)

IndexOrgs == {"org1", "org2"}
IndexEnvironments == {"env1", "env2", "env3"}
IndexKeys == {"DB_PASSWORD", "API_KEY"}

\* The organization an environment belongs to; the caller of createSecret
\* passes it as orgId.
EnvironmentOrg(e) == IF e = "env2" THEN "org2" ELSE "org1"

StartCreateIndexed(r) ==
    \E e \in IndexEnvironments, k \in IndexKeys :
        StartCreateWith(r, e, k, <<"a">>, EnvironmentOrg(e))

InitIndex ==
    /\ masterKey = ProvisioningMasterKey
    /\ orgs = [o \in IndexOrgs |->
                  IF o = "org1"
                  THEN [encryptedKek |-> WrapKEK(ProvisioningMasterKey, 3, 4), kekVersion |-> 1]
                  ELSE [encryptedKek |-> WrapKEK(ProvisioningMasterKey, 5, 6), kekVersion |-> 1]]
    /\ kekLog = {[orgId |-> "org1", kekVersion |-> 1, kek |-> 3],
                 [orgId |-> "org2", kekVersion |-> 1, kek |-> 5]}
    /\ secrets = {}
    /\ versions = {}
    /\ tx = [r \in Reqs |-> NoTx]
    /\ req = [r \in Reqs |-> Idle]
    /\ opCount = 0
    /\ rnd = 6
    /\ nextId = 0
    /\ clock = 2
    /\ NoAccounts

NextIndex ==
    /\ UNCHANGED <<apiKeys, users, redis>>
    /\ \E r \in Reqs :
        /\ NoneInFlight(r)
        /\ \/ StartCreateIndexed(r) \/ CreateFind(r) \/ CreateEncrypt(r)
           \/ CreateTxInsert(r) \/ CreateTxCommit(r)

SpecIndex == InitIndex /\ [][NextIndex]_vars

\* C20: the token stored with a secret is the one createBlindIndex gives
\* again for its key name and its organization's salt, and two secrets
\* with the same key name have the same token exactly when they belong to
\* the same organization.
C20_BlindIndex ==
    \A s1, s2 \in secrets :
        /\ s1.keyHash = createBlindIndex(s1.key, EnvironmentOrg(s1.environmentId))
        /\ s1.key = s2.key =>
              (s1.keyHash = s2.keyHash
                  <=> EnvironmentOrg(s1.environmentId) = EnvironmentOrg(s2.environmentId))

\* One key name is stored in two environments of org1 and in one of org2.
C20_Witness ==
    \E s1, s2, s3 \in secrets :
        /\ s1.key = s2.key /\ s2.key = s3.key
        /\ s1.environmentId = "env1" /\ s2.environmentId = "env2"
        /\ s3.environmentId = "env3"
        /\ s1.keyHash = s3.keyHash
        /\ s1.keyHash # s2.keyHash

(***************************************************************************)
(* listSecrets step by step: one KEK unwrap, the callbacks of              *)
(* secrets.map in any order of completion, kek.fill(0), audit, return      *)
(***************************************************************************)

MaxPage == 3    \* secrets in the environment that is listed

\* The i-th secret of the environment and its version 1.  A stale row is
\* one whose DEK is wrapped under a KEK the organization no longer has.
ListedSecret(i) ==
    [id |-> 2 * i - 1, environmentId |-> "env1", path |-> "/",
     key |-> <<"KEY", i>>, keyHash |-> createBlindIndex(<<"KEY", i>>, "org1"),
     description |-> "", currentVersion |-> 1, currentVersionId |-> 2 * i,
     deleted |-> FALSE]

ListedVersion(i, stale) ==
    VersionRow(2 * i, 2 * i - 1, 1,
               encryptSecret(<<"a">>, IF stale THEN 2 ELSE 3, 1,
                             4 + 3 * i - 2, 4 + 3 * i - 1, 4 + 3 * i))

InitList ==
    /\ masterKey = ProvisioningMasterKey
    /\ orgs = [o \in Orgs |-> [encryptedKek |-> WrapKEK(ProvisioningMasterKey, 3, 4),
                               kekVersion |-> 1]]
    /\ kekLog = {[orgId |-> o, kekVersion |-> 1, kek |-> 3] : o \in Orgs}
    /\ \E n \in 0..MaxPage, stale \in 0..MaxPage :
          /\ stale <= n
          /\ secrets = {ListedSecret(i) : i \in 1..n}
          /\ versions = {ListedVersion(i, i = stale) : i \in 1..n}
    /\ tx = [r \in Reqs |-> NoTx]
    /\ req = [r \in Reqs |-> Idle]
    /\ opCount = 0
    /\ rnd = 4 + 3 * MaxPage
    /\ nextId = 2 * MaxPage
    /\ clock = 2
    /\ NoAccounts

\* `if (includeValues && secrets.length > 0)`: organization.findUnique and
\* decryptOrgKEK; then secrets.map starts one callback for every secret.
\* unwraps / wipes count the decryptOrgKEK and kek.fill(0) calls so far,
\* used records, for each decryptSecret call, the KEK buffer it was given
\* and whether that buffer had been zero-filled by then.
ListUnwrap(r) ==
    /\ req[r].pc = "list_decrypt"
    /\ LET a == req[r].arg
           l == req[r].loc
           unwrap == a.includeValues /\ l.page # {}
           k == decryptOrgKEK(orgs[a.orgId].encryptedKek)
       IN  IF unwrap /\ ~k.ok
           THEN req' = Finish(r, "CryptoError", <<>>, {}, <<>>)
           ELSE req' = Goto(r, "list_items",
                            [page |-> l.page, pending |-> l.page, results |-> {},
                             kek |-> IF unwrap THEN <<k.kek>> ELSE <<>>,
                             unwraps |-> IF unwrap THEN 1 ELSE 0,
                             wipes |-> 0, used |-> {}])
    /\ UNCHANGED <<masterKey, orgs, secrets, versions, tx, opCount, rnd, nextId, clock, kekLog>>

\* A listSecrets that unwraps the KEK again for every item.
ListItemStepOwnUnwrap(r) ==
    /\ req[r].pc = "list_items"
    /\ \E item \in req[r].loc.pending :
          LET a == req[r].arg
              l == req[r].loc
              decrypts == a.includeValues /\ l.kek # <<>> /\ item.versions # {}
              res == IF decrypts THEN ListItem(item, TRUE, l.kek[1])
                     ELSE ListItem(item, FALSE, 0)
              l2 == [l EXCEPT !.pending = @ \ {item},
                              !.results = @ \cup {[id |-> res.id, version |-> res.version,
                                                   value |-> res.value]},
                              !.unwraps = IF decrypts THEN @ + 1 ELSE @,
                              !.used = IF decrypts
                                       THEN @ \cup {[id |-> res.id, kek |-> l.kek[1],
                                                     wiped |-> l.wipes > 0]}
                                       ELSE @]
          IN  IF res.ok
              THEN req' = Goto(r, "list_items", l2)
              ELSE req' = [Finish(r, "CryptoError", <<>>, {"kek"} \cup res.unwiped, <<>>)
                              EXCEPT ![r].loc = l2]
    /\ UNCHANGED <<masterKey, orgs, secrets, versions, tx, opCount, rnd, nextId, clock, kekLog>>

\* One callback of secrets.map completes: decryptSecret under kek when
\* `includeValues && kek && secret.versions[0]`.  A throw rejects the
\* Promise.all, and listSecrets throws without reaching kek.fill(0).
ListItemStep(r) ==
    /\ req[r].pc = "list_items"
    /\ \E item \in req[r].loc.pending :
          LET a == req[r].arg
              l == req[r].loc
              decrypts == a.includeValues /\ l.kek # <<>> /\ item.versions # {}
              res == IF decrypts THEN ListItem(item, TRUE, l.kek[1])
                     ELSE ListItem(item, FALSE, 0)
              l2 == [l EXCEPT !.pending = @ \ {item},
                              !.results = @ \cup {[id |-> res.id, version |-> res.version,
                                                   value |-> res.value]},
                              !.used = IF decrypts
                                       THEN @ \cup {[id |-> res.id, kek |-> l.kek[1],
                                                     wiped |-> l.wipes > 0]}
                                       ELSE @]
          IN  IF res.ok
              THEN req' = Goto(r, "list_items", l2)
              ELSE req' = [Finish(r, "CryptoError", <<>>, {"kek"} \cup res.unwiped, <<>>)
                              EXCEPT ![r].loc = l2]
    /\ UNCHANGED <<masterKey, orgs, secrets, versions, tx, opCount, rnd, nextId, clock, kekLog>>

\* The Promise.all has resolved: `if (kek) kek.fill(0)`, auditService.log
\* when includeValues, return.
ListReturn(r) ==
    /\ req[r].pc = "list_items"
    /\ req[r].loc.pending = {}
    /\ LET a == req[r].arg
           l == req[r].loc
           l2 == [l EXCEPT !.wipes = IF l.kek # <<>> THEN @ + 1 ELSE @]
           ret == [secrets |-> l.results, total |-> Cardinality(l.page)]
       IN  IF a.includeValues
           THEN \E createOk \in BOOLEAN :
                    req' = [FinishAudited(r, ret, {}, "secret.list_with_values", createOk)
                               EXCEPT ![r].loc = l2]
           ELSE req' = [Finish(r, "ok", ret, {}, <<>>) EXCEPT ![r].loc = l2]
    /\ UNCHANGED <<masterKey, orgs, secrets, versions, tx, opCount, rnd, nextId, clock, kekLog>>

NextList ==
    /\ UNCHANGED <<apiKeys, users, redis>>
    /\ \E r \in Reqs :
        \/ StartList(r) \/ ListFind(r) \/ ListUnwrap(r)
        \/ ListItemStep(r) \/ ListReturn(r)

SpecList == InitList /\ [][NextList]_vars

\* The request is inside, or has left, the item phase of a listSecrets call.
InItemPhase(r) == req[r].op = "list" /\ "used" \in DOMAIN req[r].loc

\* C21: a listSecrets call unwraps the organization KEK at most once, and
\* only when values are asked for; every decryptSecret of the call is given
\* that one KEK, not yet zero-filled; the KEK is zero-filled at most once
\* and only when no item of the page is pending; and a call that returns
\* has decrypted every item that has a current version and has zero-filled
\* the KEK exactly once if it unwrapped one.
C21_ListUnwrapsOnce ==
    \A r \in Reqs :
        InItemPhase(r) =>
            LET l == req[r].loc
            IN  /\ l.unwraps <= 1
                /\ l.unwraps = 1 <=> (req[r].arg.includeValues /\ l.page # {})
                /\ \A u \in l.used : l.kek = <<u.kek>> /\ ~u.wiped
                /\ l.wipes <= l.unwraps
                /\ l.wipes = 1 => l.pending = {}
                /\ (req[r].pc = "done" /\ req[r].result = "ok") =>
                      /\ l.wipes = l.unwraps
                      /\ l.unwraps = 1 =>
                            {u.id : u \in l.used}
                                = {i.secret.id : i \in {j \in l.page : j.versions # {}}}

\* A page of three secrets has been listed with values.
C21_Witness ==
    \E r \in Reqs :
        /\ InItemPhase(r)
        /\ req[r].pc = "done" /\ req[r].result = "ok"
        /\ Cardinality(req[r].loc.used) = 3
        /\ req[r].loc.unwraps = 1 /\ req[r].loc.wipes = 1
        /\ \A i \in req[r].ret.secrets : i.value = <<(<<"a">>)>>

(***************************************************************************)
(* Version numbers, one call at a time                                     *)
(***************************************************************************)

\* C22: with calls made one after another, the version numbers of every
\* secret are exactly 1 .. currentVersion, one row for each number: the
\* chain starts at 1, and no number is left out or used twice.
C22_VersionsGapFree ==
    \A s \in secrets :
        /\ s.currentVersion >= 1
        /\ VersionNumbers(s.id) = 1..s.currentVersion
        /\ Cardinality(VersionsOf(s.id)) = s.currentVersion

\* createSecret, a value update that made version 2 and a rollback that
\* made version 3.
C22_Witness ==
    \E r, q \in Reqs :
        /\ Finished(r, "rollback") /\ req[r].result = "ok" /\ req[r].ret.version = 3
        /\ Finished(q, "update") /\ req[q].result = "ok" /\ req[q].ret.version = 2
        /\ req[q].arg.hasValue
        /\ \E s \in secrets : s.id = req[r].ret.id /\ s.currentVersion = 3

(***************************************************************************)
(* What a rotation touches                                                 *)
(***************************************************************************)

\* The rows with the encrypted value, its iv and its tag blanked.
ValueFieldsBlanked(list) ==
    [i \in 1..Len(list) |->
        [list[i] EXCEPT !.encryptedValue = <<>>, !.iv = 0, !.authTag = 0]]

\* C23: a rotateOrgKEK call that returns gives, for the i-th input entry,
\* an entry of the same id and nothing else but an encryptedDek, which
\* unwraps under the new KEK to the DEK the input entry unwrapped to under
\* the old KEK; its result is the same whatever the rows' encryptedValue,
\* iv and authTag are, and it carries no value field and no plaintext.
C23_RotationTouchesOnlyWraps ==
    [][\A r \in Reqs :
          (RotationReturns(r) /\ req'[r].result = "ok") =>
              LET o == req[r].arg.orgId
                  in == req'[r].ret.input
                  out == req'[r].ret.updatedSecrets
                  oldKek == decryptOrgKEK(orgs[o].encryptedKek).kek
                  new == decryptOrgKEK(req'[r].ret.newEncryptedKek)
                  full == SortById(versions)
                  onRows == rotateOrgKEK(orgs[o].encryptedKek, full,
                                         rnd + 1, rnd + 2, rnd + 2, clock')
                  onBlanked == rotateOrgKEK(orgs[o].encryptedKek, ValueFieldsBlanked(full),
                                            rnd + 1, rnd + 2, rnd + 2, clock')
              IN  /\ new.ok
                  /\ Len(out) = Len(in)
                  /\ \A i \in 1..Len(in) :
                        /\ DOMAIN out[i] = {"id", "encryptedDek"}
                        /\ out[i].id = in[i].id
                        /\ out[i].encryptedDek # in[i].encryptedDek
                        /\ decryptDEK(out[i].encryptedDek, new.kek).ok
                        /\ decryptDEK(in[i].encryptedDek, oldKek).ok
                        /\ decryptDEK(out[i].encryptedDek, new.kek).dek
                               = decryptDEK(in[i].encryptedDek, oldKek).dek
                  /\ onRows = onBlanked
                  /\ onRows.updatedSecrets = out
                  /\ DOMAIN onRows
                        = {"ok", "newEncryptedKek", "updatedSecrets", "newVersion", "unwiped"}]_vars

\* A rotation has re-wrapped the DEKs of three versions of one secret.
C23_Witness ==
    \E r \in Reqs :
        /\ Finished(r, "rotate")
        /\ req[r].result = "ok"
        /\ Len(req[r].ret.updatedSecrets) = 3
        /\ \E s \in secrets : s.currentVersion = 3

\* C24: the newVersion a rotateOrgKEK call returns is strictly greater than
\* the kekVersion the organization had before that rotation, also for a
\* rotation that follows another one at once.
C24_RotationVersionIncreases ==
    [][\A r \in Reqs :
          (RotationReturns(r) /\ req'[r].result = "ok") =>
              req'[r].ret.newVersion > orgs[req[r].arg.orgId].kekVersion]_vars

(***************************************************************************)
(* DEKs and the versions that carry them                                   *)
(***************************************************************************)

\* The DEK inside a version's wrap.
DekOf(v) == B64Decode(SplitColon(v.encryptedDek).ciphertextB64).p[1]

\* Two rows of different id.
VersionPairs == {p \in versions \X versions : p[1].id # p[2].id}

\* C25 as stated: no two distinct SecretVersion rows carry the same wrapped
\* DEK, nor the same DEK with the same iv.
C25_DekInOneVersionOnly ==
    \A p \in VersionPairs :
        /\ p[1].encryptedDek # p[2].encryptedDek
        /\ ~(DekOf(p[1]) = DekOf(p[2]) /\ p[1].iv = p[2].iv)

\* C25, amended: two distinct SecretVersion rows carry the same DEK only as
\* copies of one another within one secret (same encryptedValue, iv and
\* authTag, different version numbers), and a row that enters the table
\* with a DEK another row already carries is written by a rollback; every
\* row written by createSecret or updateSecret has a DEK of its own.
C25_DekSharedOnlyByRollback ==
    /\ [](\A p \in VersionPairs :
             DekOf(p[1]) = DekOf(p[2]) =>
                 /\ p[1].secretId = p[2].secretId
                 /\ p[1].version # p[2].version
                 /\ p[1].encryptedValue = p[2].encryptedValue
                 /\ p[1].iv = p[2].iv
                 /\ p[1].authTag = p[2].authTag)
    /\ [][\A w \in versions' :
              (w.id \notin Ids(versions) /\ \E v \in versions : DekOf(v) = DekOf(w)) =>
                  \E r \in Reqs : req[r].op = "rollback" /\ w \in tx[r].versions]_vars

\* A rollback has copied a version, and a rotation has re-wrapped both
\* copies since: the two rows hold one DEK in two different wraps.
C25_Witness ==
    /\ \E p \in VersionPairs :
          DekOf(p[1]) = DekOf(p[2]) /\ p[1].encryptedDek # p[2].encryptedDek
    /\ \E r \in Reqs : Finished(r, "rollback") /\ req[r].result = "ok"

(***************************************************************************)
(* Soft-deleted secrets                                                    *)
(***************************************************************************)

\* C26: with calls made one after another, an updateSecret at a tuple whose
\* secret is soft-deleted and a rollbackToVersion of a soft-deleted secret
\* return NotFoundError and leave every Secret and SecretVersion row as it
\* was.
C26_SoftDeletedFrozen ==
    [][\A r \in Reqs :
          /\ (Returns(r, "update") /\ RowsAt(req[r].arg) # {} /\ ActiveAt(req[r].arg) = {})
                 => /\ req'[r].result = "NotFoundError"
                    /\ secrets' = secrets /\ versions' = versions
          /\ (Returns(r, "rollback")
                 /\ \E s \in ById(req[r].arg.secretId) : s.deleted)
                 => /\ req'[r].result = "NotFoundError"
                    /\ secrets' = secrets /\ versions' = versions]_vars

(***************************************************************************)
(* Rollbacks and value updates of one secret, concurrently                 *)
(***************************************************************************)

\* A value-changing updateSecret call.
ValueUpdateCall(r) ==
    /\ StartUpdate(r)
    /\ req'[r].arg.hasValue

\* A rollbackToVersion call for a secret that exists.
RollbackCall(r) ==
    /\ StartRollback(r)
    /\ req'[r].arg.secretId \in Ids(secrets)

NextRollback ==
    /\ UNCHANGED <<apiKeys, users, redis>>
    /\ \E r \in Reqs :
        \/ ValueUpdateCall(r) \/ UpdateFind(r) \/ UpdateEncrypt(r)
        \/ UpdateTxInsert(r) \/ UpdateTxCommit(r)
        \/ RollbackCall(r) \/ RollbackReadSecret(r) \/ RollbackReadVersion(r)
        \/ RollbackTxInsert(r) \/ RollbackTxCommit(r)

SpecRollback == InitUpdate /\ [][NextRollback]_vars

\* C27: rollbackToVersion calls running concurrently with updateSecret
\* calls and with one another on one secret: in every state the committed
\* version numbers are pairwise distinct and currentVersion and
\* currentVersionId name the row with the highest of them; no step removes
\* or changes a committed row, and the step in which a call returns
\* successfully adds the row of the number it returns and points the
\* secret at it.
C27_ConcurrentRollback ==
    /\ [](\A s \in secrets :
             /\ Cardinality(VersionsOf(s.id)) = Cardinality(VersionNumbers(s.id))
             /\ \E v \in VersionsOf(s.id) :
                   /\ v.id = s.currentVersionId
                   /\ v.version = s.currentVersion
                   /\ \A w \in VersionsOf(s.id) : w.version <= v.version)
    /\ [][/\ versions \subseteq versions'
          /\ \A r \in Reqs :
                AppendsVersion(r) =>
                    \E v \in versions' \ versions :
                        /\ versions' = versions \cup {v}
                        /\ v.secretId = req'[r].ret.id
                        /\ v.version = req'[r].ret.version
                        /\ \E s \in secrets' : s.id = v.secretId /\ s.currentVersionId = v.id]_vars

\* A rollback and a value update both read currentVersion = 1; the update
\* committed version 2 and the rollback failed on the version index.
C27_Witness ==
    \E r, q \in Reqs :
        /\ Finished(r, "rollback") /\ req[r].result = "UniqueConstraintError"
        /\ Finished(q, "update") /\ req[q].result = "ok" /\ req[q].ret.version = 2
        /\ \E s \in secrets : s.currentVersion = 2

(***************************************************************************)
(* Operations addressed by secret id, under two organizations              *)
(***************************************************************************)

\* The organization a secret belongs to, through its environment.
SecretOrg(s) == EnvironmentOrg(s.environmentId)

StartCreateTenant(r) ==
    \E e \in {"env1", "env2"} :
        StartCreateWith(r, e, "DB_PASSWORD", <<"a">>, EnvironmentOrg(e))

\* rollbackToVersion(secretId, targetVersion, userId, orgId), called by a
\* member of either organization.
StartRollbackAs(r) ==
    \E sid \in Ids(secrets), t \in 1..MaxTarget, o \in IndexOrgs :
        /\ Begin(r, "rollback", "rb_read",
                 [secretId |-> sid, targetVersion |-> t, orgId |-> o])
        /\ UNCHANGED <<masterKey, orgs, secrets, versions, tx, rnd, nextId, clock, kekLog>>

\* orderBy: { version: 'desc' }
RECURSIVE VersionsDesc(_)
VersionsDesc(rows) ==
    IF rows = {} THEN <<>>
    ELSE LET top == CHOOSE x \in rows : \A y \in rows : x.version >= y.version
         IN  <<top.version>> \o VersionsDesc(rows \ {top})

\* getSecretVersions(secretId, orgId)
StartGetVersions(r) ==
    \E sid \in Ids(secrets) \cup {0}, o \in IndexOrgs :
        /\ Begin(r, "versions", "ver_find", [secretId |-> sid, orgId |-> o])
        /\ UNCHANGED <<masterKey, orgs, secrets, versions, tx, rnd, nextId, clock, kekLog>>

\* secretVersion.findMany({ where: { secretId } }), versions.map, return
GetVersionsFind(r) ==
    /\ req[r].pc = "ver_find"
    /\ req' = Finish(r, "ok", [versions |-> VersionsDesc(VersionsOf(req[r].arg.secretId))],
                     {}, <<>>)
    /\ UNCHANGED <<masterKey, orgs, secrets, versions, tx, opCount, rnd, nextId, clock, kekLog>>

NextTenant ==
    /\ UNCHANGED <<apiKeys, users, redis>>
    /\ \E r \in Reqs :
        /\ NoneInFlight(r)
        /\ \/ StartCreateTenant(r) \/ CreateFind(r) \/ CreateEncrypt(r)
           \/ CreateTxInsert(r) \/ CreateTxCommit(r)
           \/ StartRollbackAs(r) \/ RollbackReadSecret(r) \/ RollbackReadVersion(r)
           \/ RollbackTxInsert(r) \/ RollbackTxCommit(r)
           \/ StartGetVersions(r) \/ GetVersionsFind(r)

SpecTenant == InitIndex /\ [][NextTenant]_vars

\* The call of r addresses a secret of an organization other than the
\* orgId it was made with.
ForeignSecret(r) ==
    \E s \in ById(req[r].arg.secretId) : SecretOrg(s) # req[r].arg.orgId

\* C28: rollbackToVersion and getSecretVersions called with the id of a
\* secret of another organization fail, and leave every Secret and
\* SecretVersion row as it was.
C28_TenantIsolation ==
    [][\A r \in Reqs :
          ((Returns(r, "rollback") \/ Returns(r, "versions")) /\ ForeignSecret(r))
              => /\ req'[r].result # "ok"
                 /\ secrets' = secrets
                 /\ versions' = versions]_vars

(***************************************************************************)
(* KeyService: API keys                                                    *)
(*                                                                         *)
(* A full key kv_live_<random> is the pair <<n, tail>>: n stands for the   *)
(* first eight characters of the random part, tail for the rest.  The key  *)
(* createKey and rotateKey hand out has tail 0; a key with another tail    *)
(* shares the prefix and is not the key that was issued.                   *)
(***************************************************************************)

Tenants == {"t1"}
KeyTails == {0, 1}

\* hashKey(key): SHA-256, collision-free.
hashKey(key) == [sha256 |-> key]

\* extractPrefix(key)
extractPrefix(key) == [prefix |-> key[1]]

\* What updateKey is given as updates (the request body).
UpdateInputs == {[name |-> "renamed"], [isRevoked |-> FALSE]}

\* One key of tenant t1, as createKey leaves it; revokedAt = 0 is null.
InitKeys ==
    /\ masterKey = ProvisioningMasterKey
    /\ orgs = [o \in Orgs |-> [encryptedKek |-> WrapKEK(ProvisioningMasterKey, 3, 4),
                               kekVersion |-> 1]]
    /\ kekLog = {}
    /\ secrets = {}
    /\ versions = {}
    /\ tx = [r \in Reqs |-> NoTx]
    /\ req = [r \in Reqs |-> Idle]
    /\ opCount = 0
    /\ rnd = 1
    /\ nextId = 1
    /\ clock \in {2, 3}
    /\ apiKeys = {[id |-> 1, tenantId |-> "t1", name |-> "k", prefix |-> extractPrefix(<<1, 0>>),
                   keyHash |-> hashKey(<<1, 0>>), isRevoked |-> FALSE, revokedAt |-> 0,
                   revokedReason |-> "null", rotationCount |-> 0, lastUsedAt |-> 0]}
    /\ users = {}
    /\ redis = [refresh |-> {}, blacklist |-> {}]

\* verifyKey(key), with no required scopes
StartVerifyKey(r) ==
    \E n \in 1..rnd, tail \in KeyTails :
        /\ Begin(r, "verifyKey", "vk_run", [key |-> <<n, tail>>])
        /\ UNCHANGED <<masterKey, orgs, secrets, versions, tx, rnd, nextId, clock, kekLog,
                       apiKeys, users, redis>>

\* findOne({ prefix }), the revoked check, the hash check, updateLastUsed.
\* The keys of the model do not expire.
VerifyKeyRun(r) ==
    /\ req[r].pc = "vk_run"
    /\ LET key == req[r].arg.key
           found == {k \in apiKeys : k.prefix = extractPrefix(key)}
       IN  IF found = {}
           THEN /\ req' = Finish(r, "ok", [valid |-> FALSE, error |-> "KEY_NOT_FOUND"], {}, <<>>)
                /\ apiKeys' = apiKeys
           ELSE LET apiKey == CHOOSE k \in found : TRUE
                IN  IF apiKey.isRevoked
                    THEN /\ req' = Finish(r, "ok", [valid |-> FALSE, error |-> "KEY_REVOKED"],
                                          {}, <<>>)
                         /\ apiKeys' = apiKeys
                    ELSE IF hashKey(key) # apiKey.keyHash
                    THEN /\ req' = Finish(r, "ok", [valid |-> FALSE, error |-> "INVALID_KEY"],
                                          {}, <<>>)
                         /\ apiKeys' = apiKeys
                    ELSE /\ req' = Finish(r, "ok", [valid |-> TRUE, id |-> apiKey.id], {}, <<>>)
                         /\ apiKeys' = (apiKeys \ {apiKey})
                                           \cup {[apiKey EXCEPT !.lastUsedAt = clock]}
    /\ UNCHANGED <<masterKey, orgs, secrets, versions, tx, opCount, rnd, nextId, clock, kekLog,
                   users, redis>>

\* rotateKey(keyId, tenantId, userId)
StartRotateKey(r) ==
    \E id \in {0, 1}, t \in Tenants :
        /\ Begin(r, "rotateKey", "rk_run", [keyId |-> id, tenantId |-> t])
        /\ UNCHANGED <<masterKey, orgs, secrets, versions, tx, rnd, nextId, clock, kekLog,
                       apiKeys, users, redis>>

\* findOne({ id, tenantId, isRevoked: false }), apiKey.update({ prefix,
\* keyHash, metadata })
RotateKeyRun(r) ==
    /\ req[r].pc = "rk_run"
    /\ LET a == req[r].arg
           found == {k \in apiKeys : k.id = a.keyId /\ k.tenantId = a.tenantId /\ ~k.isRevoked}
       IN  IF found = {}
           THEN /\ req' = Finish(r, "Key not found or already revoked", <<>>, {}, <<>>)
                /\ UNCHANGED <<apiKeys, rnd>>
           ELSE LET apiKey == CHOOSE k \in found : TRUE
                    newFullKey == <<rnd + 1, 0>>
                IN  /\ rnd' = rnd + 1
                    /\ apiKeys' = (apiKeys \ {apiKey}) \cup
                           {[apiKey EXCEPT !.prefix = extractPrefix(newFullKey),
                                           !.keyHash = hashKey(newFullKey),
                                           !.rotationCount = apiKey.rotationCount + 1]}
                    /\ req' = Finish(r, "ok", [id |-> apiKey.id, key |-> newFullKey], {}, <<>>)
    /\ UNCHANGED <<masterKey, orgs, secrets, versions, tx, opCount, nextId, clock, kekLog,
                   users, redis>>

\* revokeKey(keyId, tenantId, reason)
StartRevokeKey(r) ==
    \E id \in {0, 1}, t \in Tenants :
        /\ Begin(r, "revokeKey", "rv_run", [keyId |-> id, tenantId |-> t, reason |-> "null"])
        /\ UNCHANGED <<masterKey, orgs, secrets, versions, tx, rnd, nextId, clock, kekLog,
                       apiKeys, users, redis>>

\* deleteKey(tenantId, keyId): return this.revokeKey(keyId, tenantId,
\* "Deleted by user")
StartDeleteKey(r) ==
    \E id \in {0, 1}, t \in Tenants :
        /\ Begin(r, "deleteKey", "rv_run",
                 [keyId |-> id, tenantId |-> t, reason |-> "Deleted by user"])
        /\ UNCHANGED <<masterKey, orgs, secrets, versions, tx, rnd, nextId, clock, kekLog,
                       apiKeys, users, redis>>

\* findOne({ id, tenantId }), the two throws, apiKey.update({ isRevoked:
\* true, revokedAt, revokedReason })
RevokeKeyRun(r) ==
    /\ req[r].pc = "rv_run"
    /\ LET a == req[r].arg
           found == {k \in apiKeys : k.id = a.keyId /\ k.tenantId = a.tenantId}
       IN  IF found = {}
           THEN /\ req' = Finish(r, "Key not found", <<>>, {}, <<>>)
                /\ apiKeys' = apiKeys
           ELSE LET apiKey == CHOOSE k \in found : TRUE
                IN  IF apiKey.isRevoked
                    THEN /\ req' = Finish(r, "Key is already revoked", <<>>, {}, <<>>)
                         /\ apiKeys' = apiKeys
                    ELSE /\ apiKeys' = (apiKeys \ {apiKey}) \cup
                                {[apiKey EXCEPT !.isRevoked = TRUE, !.revokedAt = clock,
                                                !.revokedReason = a.reason]}
                         /\ req' = Finish(r, "ok", [id |-> apiKey.id, isRevoked |-> TRUE],
                                          {}, <<>>)
    /\ UNCHANGED <<masterKey, orgs, secrets, versions, tx, opCount, rnd, nextId, clock, kekLog,
                   users, redis>>

\* updateKey(tenantId, keyId, updates)
StartUpdateKey(r) ==
    \E id \in {0, 1}, t \in Tenants, updates \in UpdateInputs :
        /\ Begin(r, "updateKey", "uk_run", [keyId |-> id, tenantId |-> t, updates |-> updates])
        /\ UNCHANGED <<masterKey, orgs, secrets, versions, tx, rnd, nextId, clock, kekLog,
                       apiKeys, users, redis>>

\* findOne({ id, tenantId }), apiKey.update(updates): every field that
\* updates names is written.
UpdateKeyRun(r) ==
    /\ req[r].pc = "uk_run"
    /\ LET a == req[r].arg
           found == {k \in apiKeys : k.id = a.keyId /\ k.tenantId = a.tenantId}
       IN  IF found = {}
           THEN /\ req' = Finish(r, "Key not found", <<>>, {}, <<>>)
                /\ apiKeys' = apiKeys
           ELSE LET apiKey == CHOOSE k \in found : TRUE
                    updated == [f \in DOMAIN apiKey |->
                                   IF f \in DOMAIN a.updates THEN a.updates[f] ELSE apiKey[f]]
                IN  /\ apiKeys' = (apiKeys \ {apiKey}) \cup {updated}
                    /\ req' = Finish(r, "ok", [id |-> apiKey.id], {}, <<>>)
    /\ UNCHANGED <<masterKey, orgs, secrets, versions, tx, opCount, rnd, nextId, clock, kekLog,
                   users, redis>>

\* The calls are made one after another.
NextKeys ==
    \E r \in Reqs :
        /\ NoneInFlight(r)
        /\ \/ StartVerifyKey(r) \/ VerifyKeyRun(r)
           \/ StartRotateKey(r) \/ RotateKeyRun(r)
           \/ StartRevokeKey(r) \/ StartDeleteKey(r) \/ RevokeKeyRun(r)
           \/ StartUpdateKey(r) \/ UpdateKeyRun(r)

SpecKeys == InitKeys /\ [][NextKeys]_vars

\* C29: once revokeKey has succeeded for a key record (its revokedAt is
\* set), no verifyKey call returns valid = true for that record, and no
\* call clears its isRevoked.
C29_RevocationPermanent ==
    [][/\ \A r \in Reqs :
             (Returns(r, "verifyKey") /\ req'[r].ret.valid) =>
                 \A k \in apiKeys : k.id = req'[r].ret.id => k.revokedAt = 0
       /\ \A k \in apiKeys :
             k.isRevoked => \E k2 \in apiKeys' : k2.id = k.id /\ k2.isRevoked]_vars

(***************************************************************************)
(* auth.service: refresh tokens                                            *)
(*                                                                         *)
(* clock counts seconds here.  jwt.sign is a function of the payload, the  *)
(* secret and the second it is called in (iat), so a token is the record   *)
(* of its userId, type and iat: two tokens signed for one user within one  *)
(* second are the same string.                                             *)
(***************************************************************************)

MaxClock == 3    \* last second of a behaviour
Passwords == {"p1", "p2"}

\* generateTokens({ userId, email, role }) at second now
generateTokens(userId, now) ==
    [accessToken  |-> [userId |-> userId, type |-> "access", iat |-> now],
     refreshToken |-> [userId |-> userId, type |-> "refresh", iat |-> now]]

\* redis.setex(`refresh_token:${userId}`, ttl, token)
storeRefreshToken(userId, token) ==
    [redis EXCEPT !.refresh = {e \in @ : e.userId # userId}
                                 \cup {[userId |-> userId, token |-> token]}]

\* redis.get(`refresh_token:${userId}`): the set holding the value, or {}
getStoredRefreshToken(userId) == {e.token : e \in {x \in redis.refresh : x.userId = userId}}

\* redis.del(`refresh_token:${userId}`)
deleteRefreshToken(userId) == [redis EXCEPT !.refresh = {e \in @ : e.userId # userId}]

\* User u1 has logged in at second 1, and its refresh token is stored; a
\* second or two have passed since.
InitAuth ==
    /\ masterKey = ProvisioningMasterKey
    /\ orgs = [o \in Orgs |-> [encryptedKek |-> WrapKEK(ProvisioningMasterKey, 3, 4),
                               kekVersion |-> 1]]
    /\ kekLog = {}
    /\ secrets = {}
    /\ versions = {}
    /\ tx = [r \in Reqs |-> NoTx]
    /\ req = [r \in Reqs |-> Idle]
    /\ opCount = 0
    /\ rnd = 0
    /\ nextId = 0
    /\ clock = 2 \/ clock = 3
    /\ apiKeys = {}
    /\ users = {[id |-> "u1", password |-> "p1", isActive |-> TRUE]}
    /\ redis = [refresh |-> {[userId |-> "u1", token |-> generateTokens("u1", 1).refreshToken]},
                blacklist |-> {}]

\* A second passes.
Tick ==
    /\ clock < MaxClock
    /\ clock' = clock + 1
    /\ UNCHANGED <<masterKey, orgs, secrets, versions, tx, req, opCount, rnd, nextId, kekLog,
                   apiKeys, users, redis>>

\* refreshTokens(refreshToken), with a refresh token the service has signed
StartRefresh(r) ==
    \E iat \in 1..clock :
        /\ Begin(r, "refreshTokens", "rt_get",
                 [refreshToken |-> generateTokens("u1", iat).refreshToken])
        /\ UNCHANGED <<masterKey, orgs, secrets, versions, tx, rnd, nextId, clock, kekLog,
                       apiKeys, users, redis>>

\* verifyRefreshToken, the type check, getStoredRefreshToken, and
\* `if (!storedToken || storedToken !== refreshToken) throw`
RefreshGet(r) ==
    /\ req[r].pc = "rt_get"
    /\ LET refreshToken == req[r].arg.refreshToken
           storedToken == getStoredRefreshToken(refreshToken.userId)
       IN  IF refreshToken.type # "refresh"
           THEN req' = Finish(r, "Invalid token type", <<>>, {}, <<>>)
           ELSE IF storedToken # {refreshToken}
           THEN req' = Finish(r, "Invalid refresh token", <<>>, {}, <<>>)
           ELSE req' = Goto(r, "rt_store", [userId |-> refreshToken.userId])
    /\ UNCHANGED <<masterKey, orgs, secrets, versions, tx, opCount, rnd, nextId, clock, kekLog,
                   apiKeys, users, redis>>

\* User.findByPk, generateTokens, storeRefreshToken, return tokens
RefreshStore(r) ==
    /\ req[r].pc = "rt_store"
    /\ LET user == {u \in users : u.id = req[r].loc.userId /\ u.isActive}
           tokens == generateTokens(req[r].loc.userId, clock)
       IN  IF user = {}
           THEN /\ req' = Finish(r, "User not found or inactive", <<>>, {}, <<>>)
                /\ redis' = redis
           ELSE /\ redis' = storeRefreshToken(req[r].loc.userId, tokens.refreshToken)
                /\ req' = Finish(r, "ok", tokens, {}, <<>>)
    /\ UNCHANGED <<masterKey, orgs, secrets, versions, tx, opCount, rnd, nextId, clock, kekLog,
                   apiKeys, users>>

\* logout(userId, accessToken)
StartLogout(r) ==
    \E iat \in 1..clock :
        /\ Begin(r, "logout", "lo_run",
                 [userId |-> "u1", accessToken |-> generateTokens("u1", iat).accessToken])
        /\ UNCHANGED <<masterKey, orgs, secrets, versions, tx, rnd, nextId, clock, kekLog,
                       apiKeys, users, redis>>

\* blacklistToken(accessToken), deleteRefreshToken(userId).  at: the second
\* the call returns in.
LogoutRun(r) ==
    /\ req[r].pc = "lo_run"
    /\ redis' = [deleteRefreshToken(req[r].arg.userId)
                    EXCEPT !.blacklist = @ \cup {req[r].arg.accessToken}]
    /\ req' = Finish(r, "ok", [at |-> clock], {}, <<>>)
    /\ UNCHANGED <<masterKey, orgs, secrets, versions, tx, opCount, rnd, nextId, clock, kekLog,
                   apiKeys, users>>

\* changePassword(userId, currentPassword, newPassword)
StartChangePassword(r) ==
    \E cur \in Passwords, new \in Passwords :
        /\ Begin(r, "changePassword", "cp_update",
                 [userId |-> "u1", currentPassword |-> cur, newPassword |-> new])
        /\ UNCHANGED <<masterKey, orgs, secrets, versions, tx, rnd, nextId, clock, kekLog,
                       apiKeys, users, redis>>

\* User.findByPk, comparePassword, user.update({ password })
ChangePasswordUpdate(r) ==
    /\ req[r].pc = "cp_update"
    /\ LET a == req[r].arg
           user == {u \in users : u.id = a.userId}
       IN  IF user = {}
           THEN /\ req' = Finish(r, "User not found", <<>>, {}, <<>>)
                /\ users' = users
           ELSE LET u == CHOOSE x \in user : TRUE
                IN  IF u.password # a.currentPassword
                    THEN /\ req' = Finish(r, "Current password is incorrect", <<>>, {}, <<>>)
                         /\ users' = users
                    ELSE /\ users' = (users \ {u}) \cup {[u EXCEPT !.password = a.newPassword]}
                         /\ req' = Goto(r, "cp_delete", <<>>)
    /\ UNCHANGED <<masterKey, orgs, secrets, versions, tx, opCount, rnd, nextId, clock, kekLog,
                   apiKeys, redis>>

\* deleteRefreshToken(userId), return
ChangePasswordDelete(r) ==
    /\ req[r].pc = "cp_delete"
    /\ redis' = deleteRefreshToken(req[r].arg.userId)
    /\ req' = Finish(r, "ok", [at |-> clock], {}, <<>>)
    /\ UNCHANGED <<masterKey, orgs, secrets, versions, tx, opCount, rnd, nextId, clock, kekLog,
                   apiKeys, users>>

NextAuth ==
    \/ Tick
    \/ \E r \in Reqs :
          \/ StartRefresh(r) \/ RefreshGet(r) \/ RefreshStore(r)
          \/ StartLogout(r) \/ LogoutRun(r)
          \/ StartChangePassword(r) \/ ChangePasswordUpdate(r) \/ ChangePasswordDelete(r)

SpecAuth == InitAuth /\ [][NextAuth]_vars

\* The refreshTokens call of r passes the stored-token comparison in this
\* step.
Accepts(r) == req[r].pc = "rt_get" /\ req'[r].pc = "rt_store"

\* C30: no refreshTokens(t) call succeeds once another refreshTokens(t) call
\* has succeeded, whether the two ran one after the other or concurrently;
\* and no refresh token issued in a second before the one a logout or a
\* changePassword returned in is accepted after it.
C30_RefreshTokenSingleUse ==
    [][\A r \in Reqs : \A q \in OtherTx(r) :
          /\ (Returns(r, "refreshTokens") /\ req'[r].result = "ok")
                 => ~(/\ Finished(q, "refreshTokens")
                      /\ req[q].result = "ok"
                      /\ req[q].arg.refreshToken = req[r].arg.refreshToken)
          /\ Accepts(r)
                 => ~(/\ Finished(q, "logout") \/ Finished(q, "changePassword")
                      /\ req[q].result = "ok"
                      /\ req[r].arg.refreshToken.iat < req[q].ret.at)]_vars
====
